---- MODULE Spec2Model ----
(***************************************************************************)
(* ADM (Armon Data Management): the reconciliation engine of               *)
(* src/adm_app/indexer.py over the relational store of db.py.              *)
(*                                                                         *)
(* Strings are sequences of one-character strings, so that the regular     *)
(* expressions and normalisations of the indexer are computed character    *)
(* by character.  A connection is modelled by two copies of the tables:    *)
(* db is what the writing connection sees (its open transaction            *)
(* included), committed is what every other connection can read.           *)
(***************************************************************************)
EXTENDS Integers, Sequences, FiniteSets, TLC

\* ------------------------------------------------------------------------
\* Characters and strings
\* ------------------------------------------------------------------------

UpperSeq == <<"A","B","C","D","E","F","G","H","I","J","K","L","M",
              "N","O","P","Q","R","S","T","U","V","W","X","Y","Z">>

LowerSeq == <<"a","b","c","d","e","f","g","h","i","j","k","l","m",
              "n","o","p","q","r","s","t","u","v","w","x","y","z">>

DigitSeq == <<"0","1","2","3","4","5","6","7","8","9">>

Range(s) == { s[i] : i \in DOMAIN s }

IsUpper(c) == c \in Range(UpperSeq)

IsLower(c) == c \in Range(LowerSeq)

IsDigit(c) == c \in Range(DigitSeq)

IsSpace(c) == c = " "

\* \w of Python's re: letters, digits and the underscore
IsWord(c) == IsUpper(c) \/ IsLower(c) \/ IsDigit(c) \/ c = "_"

IndexIn(s, c) == CHOOSE i \in DOMAIN s : s[i] = c

\* ord(): the code points of the characters the model uses
Ord(c) ==
    IF IsUpper(c) THEN 64 + IndexIn(UpperSeq, c)
    ELSE IF IsLower(c) THEN 96 + IndexIn(LowerSeq, c)
    ELSE IF IsDigit(c) THEN 47 + IndexIn(DigitSeq, c)
    ELSE IF c = " " THEN 32
    ELSE IF c = "(" THEN 40
    ELSE IF c = ")" THEN 41
    ELSE IF c = "-" THEN 45
    ELSE IF c = "." THEN 46
    ELSE IF c = "_" THEN 95
    ELSE IF c = "|" THEN 124
    ELSE 0

UpperChar(c) == IF IsLower(c) THEN UpperSeq[IndexIn(LowerSeq, c)] ELSE c

LowerChar(c) == IF IsUpper(c) THEN LowerSeq[IndexIn(UpperSeq, c)] ELSE c

\* str.upper()
Upper(s) == [i \in DOMAIN s |-> UpperChar(s[i])]

\* str.casefold() (lower-casing, on the characters the model uses)
casefold(s) == [i \in DOMAIN s |-> LowerChar(s[i])]

RECURSIVE Filter(_, _)
Filter(s, keep) ==
    IF s = <<>> THEN <<>>
    ELSE IF Head(s) \in keep THEN <<Head(s)>> \o Filter(Tail(s), keep)
    ELSE Filter(Tail(s), keep)

\* s[i..j], empty when j < i
Slice(s, i, j) == IF j < i THEN <<>> ELSE SubSeq(s, i, j)

\* needle occurs in hay starting at position i
OccursAt(hay, needle, i) ==
    /\ i >= 1
    /\ i + Len(needle) - 1 <= Len(hay)
    /\ \A k \in 1..Len(needle) : hay[i + k - 1] = needle[k]

\* the Python operator  needle in hay
Contains(hay, needle) == \E i \in 1..(Len(hay) + 1) : OccursAt(hay, needle, i)

\* \b of Python's re before position i (between s[i-1] and s[i])
WordBoundary(s, i) ==
    LET before == i > 1 /\ i - 1 <= Len(s) /\ IsWord(s[i - 1])
        after  == i >= 1 /\ i <= Len(s) /\ IsWord(s[i])
    IN before # after

\* length of the run of digits of s that starts at position i
RECURSIVE DigitRun(_, _)
DigitRun(s, i) ==
    IF i <= Len(s) /\ IsDigit(s[i]) THEN 1 + DigitRun(s, i + 1) ELSE 0

\* length of the run of white space of s that starts at position i
RECURSIVE SpaceRun(_, _)
SpaceRun(s, i) ==
    IF i <= Len(s) /\ IsSpace(s[i]) THEN 1 + SpaceRun(s, i + 1) ELSE 0

\* lexicographic order of two strings by code point (str.__lt__)
RECURSIVE StrLess(_, _)
StrLess(a, b) ==
    IF b = <<>> THEN FALSE
    ELSE IF a = <<>> THEN TRUE
    ELSE IF Ord(Head(a)) # Ord(Head(b)) THEN Ord(Head(a)) < Ord(Head(b))
    ELSE StrLess(Tail(a), Tail(b))

\* the position of the last "." of a file name, 0 when there is none
LastDot(name) ==
    LET dots == { i \in DOMAIN name : name[i] = "." }
    IN IF dots = {} THEN 0 ELSE CHOOSE i \in dots : \A j \in dots : j <= i

\* pathlib's Path(name).stem
Stem(name) == IF LastDot(name) <= 1 THEN name ELSE SubSeq(name, 1, LastDot(name) - 1)

\* pathlib's Path(name).suffix
Suffix(name) == IF LastDot(name) <= 1 THEN <<>> ELSE SubSeq(name, LastDot(name), Len(name))

\* ------------------------------------------------------------------------
\* Bounds and the file universe
\* ------------------------------------------------------------------------

\* indexing passes started in one behaviour
MaxRuns == 2

\* None where a text is expected: to_text() never yields an empty string, so
\* the empty string is free to stand for a missing one.
NoText == << >>

\* None where a row id is expected (AUTOINCREMENT ids start at 1)
NoId == 0

\* None where a link reason or a link type is expected
None == "None"

\* None where a quantity is expected (parse_qty of an empty or unreadable cell)
NoQty == -1

\* None where a line number is expected (to_int of a cell that holds no integer)
NoLineNo == -1

DataRoots == {"R1", "R2"}

Path(root, folder, name) == [root |-> root, folder |-> folder, name |-> name]

\* Two paths are the same casefold()ed string when they differ in letter case only.
casefold_path(p) == [root |-> p.root, folder |-> p.folder, name |-> casefold(p.name)]

bomA == Path("R1", "BOMS", <<"B","O","M"," ","1","0","0"," ","A",".","x","l","s","x">>)

bomB == Path("R1", "BOMS", <<"B","O","M"," ","1","0","0"," ","a",".","x","l","s","x">>)

bomC == Path("R1", "BOMS", <<"b","o","m","2","0","0",".","x","l","s">>)

bomD == Path("R2", "BOMS", <<"3","0","0"," ","X",".","x","l","s","m">>)

BomUniverse == {bomA, bomB, bomC, bomD}

pn407 == <<"1","5","-","0","0","4","0","7">>

pn503 == <<"1","5","-","0","0","5","0","3">>

descBracket == <<"B","r","a","c","k","e","t">>

descPlate == <<"P","l","a","t","e">>

\* One row of a sheet below the header, as its cells are read into a
\* ParsedLine (part_number is NoText when the cell is blank): raw_ok tells
\* whether the row's unrecognised cells are JSON-serialisable (a date cell
\* is not).
Row(pn, rev, desc, rowno, rawok) ==
    [part_number |-> pn, revision |-> rev, description |-> desc,
     source_row_number |-> rowno, raw_ok |-> rawok,
     item_no |-> NoText, line_no |-> NoLineNo, qty |-> NoQty]

\* The workbooks a BOM file can hold: readable or not, and the rows of its sheets.
Workbooks ==
    [ wbB    |-> [readable |-> TRUE,
                  rows |-> << Row(pn407, <<"b">>, descBracket, 2, TRUE) >>],
      wbBC   |-> [readable |-> TRUE,
                  rows |-> << Row(pn407, <<"B">>, NoText, 2, TRUE),
                               Row(pn407, <<"C">>, descPlate, 3, TRUE) >>],
      wbDate |-> [readable |-> TRUE,
                  rows |-> << Row(pn503, NoText, NoText, 2, TRUE),
                               Row(pn407, <<"C">>, NoText, 3, FALSE) >>],
      wbBroken |-> [readable |-> FALSE, rows |-> << >>],
      wb503  |-> [readable |-> TRUE,
                  rows |-> << Row(pn503, NoText, descPlate, 2, TRUE) >>],
      wbBlank |-> [readable |-> TRUE,
                   rows |-> << Row(NoText, NoText, descBracket, 2, TRUE),
                               Row(pn503, NoText, descPlate, 3, TRUE) >>] ]

\* What os.stat() and the workbook reader see of one version of a file.
Version(m, s, wb) == [mtime |-> m, size |-> s, workbook |-> wb]

\* The versions each BOM file can have on disk (0 stands for "no such file").
BomVersions(f) ==
    IF f = bomA THEN << Version(1, 1, "wbB"), Version(2, 1, "wbBC"),
                        Version(1, 2, "wbDate"), Version(2, 2, "wbBroken") >>
    ELSE IF f = bomB THEN << Version(1, 1, "wbBC") >>
    ELSE IF f = bomC THEN << Version(1, 1, "wb503"), Version(2, 1, "wbBlank") >>
    ELSE << Version(1, 1, "wb503") >>

docC == Path("R1", "PDF", <<"1","5","-","0","0","4","0","7","_","C",".","p","d","f">>)

docLowerC == Path("R1", "PDF", <<"1","5","-","0","0","4","0","7","_","c",".","p","d","f">>)

docN == Path("R1", "PDF", <<"1","5","-","0","0","4","0","7",".","P","D","F">>)

docM == Path("R2", "SOP", <<"m","a","n","u","a","l",".","p","d","f">>)

DocUniverse == {docC, docLowerC, docN, docM}

DocVersion(m, s) == [mtime |-> m, size |-> s]

\* The versions each document can have on disk (0 stands for "no such file").
DocVersions(f) ==
    IF f = docC THEN << DocVersion(1, 1), DocVersion(2, 1) >>
    ELSE << DocVersion(1, 1) >>

\* ------------------------------------------------------------------------
\* excel_parser.py: the article of a BOM file, and its parsed rows
\* ------------------------------------------------------------------------

\* ARTICLE_PATTERN  (?i)\bBOM\s*(\d{3,})\b  matches with "BOM" at position i
ArticlePatternAt(stem, i) ==
    LET j == i + 3 + SpaceRun(stem, i + 3)
        n == DigitRun(stem, j)
    IN /\ WordBoundary(stem, i)
       /\ i + 2 <= Len(stem)
       /\ casefold(SubSeq(stem, i, i + 2)) = <<"b","o","m">>
       /\ n >= 3
       /\ WordBoundary(stem, j + n)

ArticlePatternGroup(stem, i) ==
    LET j == i + 3 + SpaceRun(stem, i + 3)
    IN SubSeq(stem, j, j + DigitRun(stem, j) - 1)

\* FALLBACK_ARTICLE_PATTERN  \b(\d{3,})\b  matches at position i
FallbackPatternAt(stem, i) ==
    /\ WordBoundary(stem, i)
    /\ DigitRun(stem, i) >= 3
    /\ WordBoundary(stem, i + DigitRun(stem, i))

Leftmost(S) == CHOOSE i \in S : \A j \in S : i <= j

\* extract_article_from_filename: the article number (the title is not modelled)
extract_article_from_filename(name) ==
    LET stem == Stem(name)
        m1 == { i \in DOMAIN stem : ArticlePatternAt(stem, i) }
        m2 == { i \in DOMAIN stem : FallbackPatternAt(stem, i) }
    IN IF m1 # {} THEN ArticlePatternGroup(stem, Leftmost(m1))
       ELSE IF m2 # {} THEN SubSeq(stem, Leftmost(m2),
                                   Leftmost(m2) + DigitRun(stem, Leftmost(m2)) - 1)
       ELSE <<"U","N","K","N","O","W","N","_">> \o stem

\* part = read_cell(row, header_map, "part_number") is not None
HasPartNumber(row) == row.part_number # NoText

\* parse_sheet_rows: a row whose part number cell is blank is passed over
parse_sheet_rows(rows) == SelectSeq(rows, HasPartNumber)

\* parse_bom_file applied to the workbook wb stored in file f: raised tells
\* that the workbook could not be read, lines are the rows of all its sheets.
parse_bom_file(f, wb) ==
    [raised |-> ~Workbooks[wb].readable,
     article_number |-> extract_article_from_filename(f.name),
     lines |-> parse_sheet_rows(Workbooks[wb].rows),
     source_file |-> f]

\* ------------------------------------------------------------------------
\* db.py: the tables and their primitives
\* ------------------------------------------------------------------------

\* the empty database created by init_db
EmptyDb ==
    [articles |-> {}, parts |-> {}, bom_lines |-> {}, documents |-> {},
     import_runs |-> << >>, import_issues |-> << >>,
     seq_articles |-> 0, seq_parts |-> 0, seq_bom_lines |-> 0, seq_documents |-> 0]

\* start_import_run: INSERT INTO import_runs(status) VALUES ('running')
start_import_run(d) ==
    [d EXCEPT !.import_runs = Append(@,
        [status |-> "running", files_scanned |-> 0, boms_parsed |-> 0,
         lines_imported |-> 0, warnings_count |-> 0, errors_count |-> 0])]

\* finish_import_run with the counters of a finished pass
finish_import_run(d, run_id, status, st) ==
    [d EXCEPT !.import_runs[run_id] =
        [status |-> status, files_scanned |-> st.files_scanned,
         boms_parsed |-> st.boms_parsed, lines_imported |-> st.lines_imported,
         warnings_count |-> st.warnings_count, errors_count |-> st.errors_count]]

\* a failure path that forgets to close the run
finish_import_run_forgotten(d, run_id) == d

\* finish_import_run(conn, run_id, status="failed"): only the status is written
finish_import_run_failed(d, run_id) ==
    [d EXCEPT !.import_runs[run_id].status = "failed"]

\* log_issue
log_issue(d, run_id, severity, file_path, row_number) ==
    [d EXCEPT !.import_issues = Append(@,
        [import_run_id |-> run_id, severity |-> severity,
         file_path |-> file_path, row_number |-> row_number])]

ArticleByNumber(d, number) == { a \in d.articles : a.article_number = number }

\* The columns source_bom_modified_at and source_bom_size_bytes that run_index
\* passes to upsert_article and reads back for its change detection.
with_source_stat(row, modified_at, size_bytes) ==
    [id |-> row.id, article_number |-> row.article_number,
     source_bom_path |-> row.source_bom_path,
     source_bom_modified_at |-> modified_at, source_bom_size_bytes |-> size_bytes]

\* upsert_article: INSERT ... ON CONFLICT(article_number) DO UPDATE
upsert_article(d, number, path, modified_at, size_bytes) ==
    IF ArticleByNumber(d, number) = {}
    THEN [d EXCEPT !.seq_articles = @ + 1,
                   !.articles = @ \cup { with_source_stat(
                       [id |-> d.seq_articles + 1, article_number |-> number,
                        source_bom_path |-> path], modified_at, size_bytes) }]
    ELSE LET old == CHOOSE a \in ArticleByNumber(d, number) : TRUE
         IN [d EXCEPT !.articles = (@ \ {old}) \cup { with_source_stat(
                       [id |-> old.id, article_number |-> number,
                        source_bom_path |-> path], modified_at, size_bytes) }]

\* the id upsert_article returns (SELECT id FROM articles WHERE article_number=?)
article_id_of(d, number) == (CHOOSE a \in ArticleByNumber(d, number) : TRUE).id

PartByNumber(d, number) == { p \in d.parts : p.part_number = number }

\* upsert_part: description=COALESCE(excluded.description, parts.description)
upsert_part(d, number, description) ==
    IF PartByNumber(d, number) = {}
    THEN [d EXCEPT !.seq_parts = @ + 1,
                   !.parts = @ \cup { [id |-> d.seq_parts + 1, part_number |-> number,
                                       description |-> description] }]
    ELSE LET old == CHOOSE p \in PartByNumber(d, number) : TRUE
         IN [d EXCEPT !.parts = (@ \ {old}) \cup
                { [id |-> old.id, part_number |-> number,
                   description |-> IF description # NoText THEN description
                                   ELSE old.description] }]

part_id_of(d, number) == (CHOOSE p \in PartByNumber(d, number) : TRUE).id

\* str.split(sep): the pieces between the separators
Split(s, sep) ==
    LET at == { i \in DOMAIN s : s[i] = sep } \cup {0, Len(s) + 1}
        nth(k) == CHOOSE i \in at : Cardinality({ j \in at : j < i }) = k
    IN [k \in 1..(Cardinality(at) - 1) |-> Slice(s, nth(k - 1) + 1, nth(k) - 1)]

\* str.isdigit()
isdigit(token) == token # << >> /\ \A i \in DOMAIN token : IsDigit(token[i])

\* int(token) of a string of digits
RECURSIVE ToInt(_)
ToInt(token) ==
    IF token = << >> THEN 0
    ELSE 10 * ToInt(SubSeq(token, 1, Len(token) - 1)) + (Ord(token[Len(token)]) - 48)

\* bom_line_sort_key: the tokens of item_no, (0, int) for digits, (1, text) otherwise
SortTokens(item_no) ==
    LET tokens == Split(item_no, ".")
    IN [i \in DOMAIN tokens |->
          IF isdigit(tokens[i]) THEN [kind |-> 0, number |-> ToInt(tokens[i]), text |-> << >>]
          ELSE [kind |-> 1, number |-> 0, text |-> tokens[i]]]

\* The column item_no that run_index passes to insert_bom_line and that
\* get_article_bom_lines reads back. The tokens bom_line_sort_key splits it
\* into are kept beside it, so that sorting does not split it again.
with_item_no(row, item_no) ==
    [id |-> row.id, article_id |-> row.article_id, part_id |-> row.part_id,
     item_no |-> item_no, sort_tokens |-> SortTokens(item_no),
     line_no |-> row.line_no, qty |-> row.qty, revision |-> row.revision,
     description |-> row.description,
     source_row_number |-> row.source_row_number,
     import_run_id |-> row.import_run_id]

\* insert_bom_line: always an INSERT
insert_bom_line(d, article_id, part_id, line, run_id) ==
    [d EXCEPT !.seq_bom_lines = @ + 1,
              !.bom_lines = @ \cup { with_item_no([id |-> d.seq_bom_lines + 1,
                    article_id |-> article_id, part_id |-> part_id,
                    line_no |-> line.line_no, qty |-> line.qty,
                    revision |-> line.revision, description |-> line.description,
                    source_row_number |-> line.source_row_number,
                    import_run_id |-> run_id], line.item_no) }]

\* clear_article_lines_for_run: DELETE FROM bom_lines WHERE article_id=?
clear_article_lines_for_run(d, article_id) ==
    [d EXCEPT !.bom_lines = { l \in @ : l.article_id # article_id }]

DocumentByPath(d, path) == { r \in d.documents : r.path = path }

\* upsert_document: INSERT ... ON CONFLICT(path) DO UPDATE
upsert_document(d, path, size_bytes, modified_at, run_id, linked_to_type, linked_id, part_revision, link_reason) ==
    LET old == CHOOSE r \in DocumentByPath(d, path) : TRUE
        row(id) == [id |-> id, path |-> path, size_bytes |-> size_bytes,
                    modified_at |-> modified_at, import_run_id |-> run_id,
                    linked_to_type |-> linked_to_type, linked_id |-> linked_id,
                    part_revision |-> part_revision, link_reason |-> link_reason]
    IN IF DocumentByPath(d, path) = {}
       THEN [d EXCEPT !.seq_documents = @ + 1,
                      !.documents = @ \cup { row(d.seq_documents + 1) }]
       ELSE [d EXCEPT !.documents = (@ \ {old}) \cup { row(old.id) }]

\* ------------------------------------------------------------------------
\* indexer.py: matching a document's file name to a part
\* ------------------------------------------------------------------------

IsAlnumUpper(c) == IsUpper(c) \/ IsDigit(c)

\* length of the run of [A-Z0-9] of s that starts at position i
RECURSIVE AlnumRun(_, _)
AlnumRun(s, i) ==
    IF i <= Len(s) /\ IsAlnumUpper(s[i]) THEN 1 + AlnumRun(s, i + 1) ELSE 0

\* ([A-Z0-9]+)\b matches at position j: the whole run, when a word boundary
\* follows it (no shorter run ends at a boundary)
TokenAt(s, j) == AlnumRun(s, j) >= 1 /\ WordBoundary(s, j + AlnumRun(s, j))

TokenText(s, j) == SubSeq(s, j, j + AlnumRun(s, j) - 1)

IsSep(s, i) == i >= 1 /\ i <= Len(s) /\ s[i] \in {"_", "-"}

\* DOC_PART_PATTERN  (?<!\d)(\d{2}-\d{5,6})(?!\d)  matches at position i
DocPartAt(s, i) ==
    /\ ~(i > 1 /\ IsDigit(s[i - 1]))
    /\ DigitRun(s, i) = 2
    /\ i + 2 <= Len(s)
    /\ s[i + 2] = "-"
    /\ DigitRun(s, i + 3) \in {5, 6}

DocPartText(s, i) == SubSeq(s, i, i + 2 + DigitRun(s, i + 3))

\* [_\-]REV[_\-]?([A-Z0-9]+)\b  matches at position i; the group starts at RevStart
RevStart(s, i) == IF IsSep(s, i + 4) THEN i + 5 ELSE i + 4

RevPatternAt(s, i) ==
    /\ IsSep(s, i)
    /\ OccursAt(s, <<"R","E","V">>, i + 1)
    /\ TokenAt(s, RevStart(s, i))

\* <part_number>[_\-]([A-Z0-9]+)\b  matches at position i
PartSuffixAt(s, pn, i) ==
    /\ OccursAt(s, pn, i)
    /\ IsSep(s, i + Len(pn))
    /\ TokenAt(s, i + Len(pn) + 1)

\* [_\-]R([A-Z0-9]+)\b  matches at position i
ShortRevAt(s, i) ==
    /\ IsSep(s, i)
    /\ i + 1 <= Len(s)
    /\ s[i + 1] = "R"
    /\ TokenAt(s, i + 2)

\* The revision token of an upper-cased stem in which the part token pn was
\* found: the first of the three patterns that matches (r1, r2, r3 are the
\* positions at which each matches), NoText when none does.
RevisionToken(stem, pn, r1, r2, r3) ==
    IF r1 # {} THEN TokenText(stem, RevStart(stem, Leftmost(r1)))
    ELSE IF r2 # {} THEN TokenText(stem, Leftmost(r2) + Len(pn) + 1)
    ELSE IF r3 # {} THEN TokenText(stem, Leftmost(r3) + 2)
    ELSE NoText

ParsedToken(stem, pn) ==
    [found |-> TRUE, part_number |-> pn,
     revision |-> RevisionToken(stem, pn,
                    { i \in DOMAIN stem : RevPatternAt(stem, i) },
                    { i \in DOMAIN stem : PartSuffixAt(stem, pn, i) },
                    { i \in DOMAIN stem : ShortRevAt(stem, i) })]

ParseStem(stem, pm) ==
    IF pm = {} THEN [found |-> FALSE, part_number |-> NoText, revision |-> NoText]
    ELSE ParsedToken(stem, DocPartText(stem, Leftmost(pm)))

DocPartMatches(stem) == { i \in DOMAIN stem : DocPartAt(stem, i) }

\* parse_document_part_and_revision: found is FALSE where the code returns
\* None, revision is NoText where the code returns no revision
parse_document_part_and_revision(filename) ==
    ParseStem(Upper(Stem(filename)), DocPartMatches(Upper(Stem(filename))))

LinesOfPart(d, part_id) == { l \in d.bom_lines : l.part_id = part_id }

NoMatch(reason) == [part_id |-> NoId, part_revision |-> NoText, link_reason |-> reason]

\* lines 421-445 of find_part_match_with_revision: the part exists; revs are
\* the distinct upper-cased revisions of its BOM lines (NULL counting as ''),
\* empty_count the number of its lines without revision
MatchRevision(part_id, revision, revs, empty_count) ==
    IF revision # NoText
    THEN IF revision \notin revs
         THEN NoMatch("revision_mismatch")
         ELSE [part_id |-> part_id, part_revision |-> revision,
               link_reason |-> "matched_part_and_revision"]
    ELSE IF empty_count > 0
    THEN [part_id |-> part_id, part_revision |-> NoText,
          link_reason |-> "matched_part_no_revision"]
    ELSE IF Cardinality(revs) <= 1
    THEN [part_id |-> part_id, part_revision |-> NoText,
          link_reason |-> "matched_part_single_revision"]
    ELSE NoMatch("ambiguous_revision_required")

\* the revisions compared as stored, without UPPER()
MatchPartCaseSensitive(d, part_id, revision) ==
    MatchRevision(part_id, revision,
                  { l.revision : l \in LinesOfPart(d, part_id) },
                  Cardinality({ l \in LinesOfPart(d, part_id) : l.revision = NoText }))

MatchPart(d, part_id, revision) ==
    MatchRevision(part_id, revision,
                  { Upper(l.revision) : l \in LinesOfPart(d, part_id) },
                  Cardinality({ l \in LinesOfPart(d, part_id) : l.revision = NoText }))

MatchParsed(d, parsed) ==
    IF ~parsed.found THEN NoMatch(None)
    ELSE IF PartByNumber(d, parsed.part_number) = {}
    THEN NoMatch("part_not_found_in_bom_index")
    ELSE MatchPart(d, part_id_of(d, parsed.part_number), parsed.revision)

\* find_part_match_with_revision
find_part_match_with_revision(d, filename) ==
    MatchParsed(d, parse_document_part_and_revision(filename))

ClassifyParsed(d, parsed) ==
    IF ~parsed.found THEN "no_part_token_in_filename"
    ELSE IF PartByNumber(d, parsed.part_number) = {}
    THEN "part_not_found_in_bom_index"
    ELSE IF parsed.revision # NoText THEN "revision_mismatch"
    ELSE "ambiguous_or_missing_revision"

\* classify_unmatched_reason
classify_unmatched_reason(d, filename) ==
    ClassifyParsed(d, parse_document_part_and_revision(filename))

\* normalize_for_match: upper case, then only [A-Z0-9] is kept
normalize_for_match(value) ==
    Filter(Upper(value), Range(UpperSeq) \cup Range(DigitSeq))

COMMON_TOKENS ==
    { <<"T","H","E">>, <<"A","N","D">>, <<"F","O","R">>, <<"W","I","T","H">>,
      <<"M","A","N","U","A","L">>, <<"D","O","C">>,
      <<"D","O","C","U","M","E","N","T">>, <<"E","N">>, <<"N","L">>, <<"D","E">>,
      <<"F","R">>, <<"R","E","V">>, <<"V">> }

\* TOKEN_SPLIT_REGEX.split: the maximal runs of [A-Z0-9] of s from position i on
RECURSIVE Chunks(_, _)
Chunks(s, i) ==
    IF i > Len(s) THEN {}
    ELSE IF AlnumRun(s, i) = 0 THEN Chunks(s, i + 1)
    ELSE { SubSeq(s, i, i + AlnumRun(s, i) - 1) } \cup Chunks(s, i + AlnumRun(s, i))

\* tokenize_for_match
tokenize_for_match(value) ==
    { t \in Chunks(Upper(value), 1) :
        /\ Len(t) >= 3
        /\ \E k \in DOMAIN t : ~IsDigit(t[k])
        /\ t \notin COMMON_TOKENS }

IsLetter(c) == IsUpper(c) \/ IsLower(c)

RECURSIVE LetterRun(_, _)
LetterRun(s, i) ==
    IF i <= Len(s) /\ IsLetter(s[i]) THEN 1 + LetterRun(s, i + 1) ELSE 0

\* length of the run of [A-Z0-9\-] (ignoring case) of s that starts at position i
RECURSIVE TailRun(_, _)
TailRun(s, i) ==
    IF i <= Len(s) /\ (IsLetter(s[i]) \/ IsDigit(s[i]) \/ s[i] = "-")
    THEN 1 + TailRun(s, i + 1) ELSE 0

\* PART_REGEX  \b([A-Z]{0,4}\d{3,}[A-Z0-9\-]*)\b  (IGNORECASE) tried at position
\* i: the positions at which a match starting at i can end.  Greedy matching
\* takes the last of them.
PartRegexEnds(s, i) ==
    LET l == LetterRun(s, i)
        d == DigitRun(s, i + l)
        last == i + l + d + TailRun(s, i + l + d)
    IN IF WordBoundary(s, i) /\ l <= 4 /\ d >= 3
       THEN { e \in (i + l + 3)..last : WordBoundary(s, e) }
       ELSE {}

Greatest(S) == CHOOSE i \in S : \A j \in S : j <= i

\* PART_REGEX.finditer(s): the matched groups in order, scanning from position i
RECURSIVE PartRegexMatches(_, _)
PartRegexMatches(s, i) ==
    IF i > Len(s) THEN << >>
    ELSE IF PartRegexEnds(s, i) = {} THEN PartRegexMatches(s, i + 1)
    ELSE LET e == Greatest(PartRegexEnds(s, i))
         IN <<SubSeq(s, i, e - 1)>> \o PartRegexMatches(s, e)

\* load_parts_cache: one entry per part row, in row order, then sorted by the
\* length of the normalised part number, longest first (list.sort is stable)
CacheEntry(p) ==
    [id |-> p.id,
     part_norm |-> normalize_for_match(p.part_number),
     description_norm |-> normalize_for_match(p.description),
     description_tokens |-> tokenize_for_match(p.description)]

CacheBefore(a, b) ==
    \/ Len(a.part_norm) > Len(b.part_norm)
    \/ Len(a.part_norm) = Len(b.part_norm) /\ a.id < b.id

RECURSIVE SortCache(_)
SortCache(S) ==
    IF S = {} THEN << >>
    ELSE LET first == CHOOSE a \in S : \A b \in S \ {a} : CacheBefore(a, b)
         IN <<first>> \o SortCache(S \ {first})

load_parts_cache(d) == SortCache({ CacheEntry(p) : p \in d.parts })

\* the id of the first cache entry whose position is in hits, NoId for none
FirstHit(cache, hits) == IF hits = {} THEN NoId ELSE cache[Leftmost(hits)].id

\* Fallback 4 of find_part_id_from_name: token overlap between the file name
\* and the part descriptions.  A score is overlap / len(description_tokens);
\* the comparisons with 0.20 and 0.35 are made on the fractions.
Overlap(tokens, item) == Cardinality(tokens \cap item.description_tokens)

TokenCandidates(cache, tokens) ==
    { i \in DOMAIN cache : /\ cache[i].description_tokens # {}
                           /\ Overlap(tokens, cache[i]) >= 2 }

\* score(a) > score(b)
ScoreGreater(tokens, a, b) ==
    Overlap(tokens, a) * Cardinality(b.description_tokens)
        > Overlap(tokens, b) * Cardinality(a.description_tokens)

\* the candidates of cand no other candidate of cand scores higher than
BestOf(cache, tokens, cand) ==
    { i \in cand : \A j \in cand : ~ScoreGreater(tokens, cache[j], cache[i]) }

\* the test on best score bo / bn and second score so / sn
ClearWinner(id, bo, bn, hasSecond, so, sn) ==
    \* second_score > 0.0 and best_score - second_score < 0.20
    IF hasSecond /\ 5 * (bo * sn - so * bn) < bn * sn THEN NoId
    \* best_score < 0.35
    ELSE IF 20 * bo < 7 * bn THEN NoId
    ELSE id

RankCandidates(cache, tokens, best, rest) ==
    IF rest = {}
    THEN ClearWinner(cache[best].id, Overlap(tokens, cache[best]),
                     Cardinality(cache[best].description_tokens), FALSE, 0, 1)
    ELSE ClearWinner(cache[best].id, Overlap(tokens, cache[best]),
                     Cardinality(cache[best].description_tokens), TRUE,
                     Overlap(tokens, cache[Leftmost(BestOf(cache, tokens, rest))]),
                     Cardinality(cache[Leftmost(BestOf(cache, tokens, rest))]
                                     .description_tokens))

PickBest(cache, tokens, cand, best) == RankCandidates(cache, tokens, best, cand \ {best})

token_overlap_match(cache, tokens) ==
    IF tokens = {} \/ TokenCandidates(cache, tokens) = {} THEN NoId
    ELSE PickBest(cache, tokens, TokenCandidates(cache, tokens),
                  Leftmost(BestOf(cache, tokens, TokenCandidates(cache, tokens))))

\* Fallback 3: the normalised description (8 characters or more) within the
\* file name, else fallback 4
DescriptionFallback(cache, filename, hits) ==
    IF hits # {} THEN FirstHit(cache, hits)
    ELSE token_overlap_match(cache, tokenize_for_match(Stem(filename)))

\* Fallback 2: the normalised part number (4 characters or more) within the
\* file name, else fallback 3
SubstringFallback(cache, filename, filename_norm, hits) ==
    IF hits # {} THEN FirstHit(cache, hits)
    ELSE DescriptionFallback(cache, filename,
            { i \in DOMAIN cache :
                /\ Len(cache[i].description_norm) >= 8
                /\ Contains(filename_norm, cache[i].description_norm) })

\* Fallback 1: normalised equality, else fallback 2
EqualityFallback(cache, filename, filename_norm, hits) ==
    IF hits # {} THEN FirstHit(cache, hits)
    ELSE SubstringFallback(cache, filename, filename_norm,
            { i \in DOMAIN cache :
                /\ Len(cache[i].part_norm) >= 4
                /\ Contains(filename_norm, cache[i].part_norm) })

\* lines 345-409 of find_part_id_from_name: the fallbacks over the cache
CacheFallbacks(cache, filename, filename_norm) ==
    IF filename_norm = << >> THEN NoId
    ELSE EqualityFallback(cache, filename, filename_norm,
            { i \in DOMAIN cache :
                /\ cache[i].part_norm # << >>
                /\ cache[i].part_norm = filename_norm })

\* the fallbacks over the cache tried before the PART_REGEX matches
CacheBeforeRegex(d, cache, filename, groups, hits) ==
    IF CacheFallbacks(cache, filename, normalize_for_match(Stem(filename))) # NoId
    THEN CacheFallbacks(cache, filename, normalize_for_match(Stem(filename)))
    ELSE IF hits # {} THEN part_id_of(d, Upper(groups[Leftmost(hits)]))
    ELSE NoId

\* lines 340-343 of find_part_id_from_name: the first PART_REGEX match that
\* is a stored part number
RegexLookup(d, cache, filename, groups, hits) ==
    IF hits # {} THEN part_id_of(d, Upper(groups[Leftmost(hits)]))
    ELSE CacheFallbacks(cache, filename, normalize_for_match(Stem(filename)))

RegexHits(d, groups) ==
    { i \in DOMAIN groups : PartByNumber(d, Upper(groups[i])) # {} }

\* find_part_id_from_name: the id of the part, NoId where the code returns None
find_part_id_from_name(d, filename, cache) ==
    RegexLookup(d, cache, filename, PartRegexMatches(filename, 1),
                RegexHits(d, PartRegexMatches(filename, 1)))

\* ------------------------------------------------------------------------
\* State
\* ------------------------------------------------------------------------

VARIABLES
    root,        \* the data root the caller passes to run_index
    bomDisk,     \* per BOM file: the version on disk, 0 when the file is absent
    docDisk,     \* per document file: the version on disk, 0 when absent
    db,          \* the tables as the writing connection sees them
    committed,   \* the tables as committed (what another connection reads)
    pc,          \* where run_index stands
    ix,          \* the local variables of run_index
    dx,          \* the local variables of index_documents
    runs,        \* number of calls of run_index so far
    edited,      \* the file system changed since the last pass
    hist,        \* history of the current pass, for stating properties only
    probe,       \* the last call of find_part_match_with_revision and its result
    current_article_id,  \* MainWindow.current_article_id: the displayed Article
    bom_tree,    \* the items of MainWindow.bom_tree below its root item
    order_cart,  \* MainWindow.order_cart: key -> order entry
    calls,       \* the call stack of a running add_selected_bom_to_order
    warnings,    \* the warnings list that call has collected so far
    op,          \* the arguments and the outcome of the last add-to-order call
    orders,      \* number of add-to-order calls so far
    ledger,      \* every leaf the order cart was given, for stating properties only
    threads      \* the UI thread and the indexing workers it started

\* the variables of an indexing pass other than the tables
passvars == <<root, bomDisk, docDisk, committed, pc, ix, dx, runs, edited, hist>>

\* the variables of the order cart and of the displayed BOM tree
ordervars == <<current_article_id, bom_tree, order_cart, calls, warnings, op, orders, ledger, threads>>

\* the variables outside an indexing pass
uivars == <<probe, current_article_id, bom_tree, order_cart, calls, warnings, op, orders, ledger, threads>>

vars == <<root, bomDisk, docDisk, db, committed, pc, ix, dx, runs, edited, hist, probe, current_article_id, bom_tree, order_cart, calls, warnings, op, orders, ledger, threads>>

\* no call of find_part_match_with_revision was made
NoProbe == [filename |-> NoText, result |-> None]

\* no call of add_selected_bom_to_order was made
NoOp == [state |-> "idle", mode |-> None, multiplier |-> 0, current |-> 0, added_lines |-> 0, unique_warnings |-> << >>]

\* run_ui before its worker is started: caller is where the UI thread
\* stands, workers the result of each background worker started so far
\* ("running" until its done flag is set), saves the calls of
\* save_bom_edits, timeouts the calls of worker.join that timed out
NoThreads == [caller |-> "run_ui", workers |-> << >>, saves |-> 0, timeouts |-> 0]

\* MainWindow.__init__: no Article displayed, an empty tree, an empty cart
OrderIdle == current_article_id = NoId /\ bom_tree = << >> /\ order_cart = << >> /\ calls = << >> /\ warnings = << >> /\ op = NoOp /\ orders = 0 /\ ledger = << >> /\ threads = NoThreads

\* nothing happens outside the indexing pass
UiIdle == probe = NoProbe /\ OrderIdle

\* IndexStats()
IndexStats0 ==
    [files_scanned |-> 0, boms_parsed |-> 0, lines_imported |-> 0,
     warnings_count |-> 0, errors_count |-> 0]

NoFrame ==
    [run_id |-> NoId, force_doc_relink |-> FALSE, stats |-> IndexStats0,
     boms_changed |-> FALSE, existing_by_path |-> << >>, bom_files |-> << >>,
     article_id |-> NoId, lines |-> << >>, removed_articles |-> 0]

\* sorted(): the files of S in ascending order of their path
RECURSIVE SortedPaths(_)
SortedPaths(S) ==
    IF S = {} THEN << >>
    ELSE LET least == CHOOSE f \in S : \A g \in S \ {f} : StrLess(f.name, g.name)
         IN <<least>> \o SortedPaths(S \ {least})

\* boms_path.rglob("*.xlsx"), ("*.xls"), ("*.xlsm") under data_root / "BOMS"
DiscoverBoms(r) ==
    { f \in BomUniverse : /\ f.root = r
                          /\ f.folder = "BOMS"
                          /\ bomDisk[f] # 0
                          /\ Suffix(f.name) \in { <<".","x","l","s","x">>,
                                                  <<".","x","l","s">>,
                                                  <<".","x","l","s","m">> } }

\* existing_by_path of run_index: the article rows by casefold()ed source path,
\* a later row replacing an earlier one under the same key
ExistingByPath(d) ==
    LET keys == { casefold_path(a.source_bom_path) : a \in d.articles }
        rows(k) == { a \in d.articles : casefold_path(a.source_bom_path) = k }
    IN [k \in keys |-> CHOOSE a \in rows(k) : \A b \in rows(k) : b.id <= a.id]

\* the test of run_index that lets a BOM file be skipped
BomUnchanged(existing, f, stat) ==
    /\ casefold_path(f) \in DOMAIN existing
    /\ existing[casefold_path(f)].source_bom_modified_at = stat.mtime
    /\ existing[casefold_path(f)].source_bom_size_bytes = stat.size

BomStat(f) == BomVersions(f)[bomDisk[f]]

NoDocFrame ==
    [force_relink |-> FALSE, existing_by_path |-> << >>, parts_cache |-> << >>,
     seen_paths |-> {}, todo |-> {}]

NoHist ==
    [outcome |-> [f \in BomUniverse |-> "none"],
     inserts |-> [f \in BomUniverse |-> 0],
     deletes |-> [f \in BomUniverse |-> 0],
     parsed |-> [f \in BomUniverse |-> << >>],
     before |-> [articles |-> {}, bom_lines |-> {}, documents |-> {}],
     latest |-> [f \in BomUniverse |-> << >>],
     doc_outcome |-> [f \in DocUniverse |-> "none"],
     ended |-> "none"]

\* The database an earlier installation left behind: one completed run that
\* read article 100 from the first version of bomA, and the manual, which
\* that installation attached to the article.
LegacyDb ==
    LET stat == BomVersions(bomA)[1]
        parsed == parse_bom_file(bomA, stat.workbook)
        line == parsed.lines[1]
        d1 == upsert_article(start_import_run(EmptyDb), parsed.article_number,
                             bomA, stat.mtime, stat.size)
        d2 == upsert_part(d1, Upper(line.part_number), line.description)
        d3 == insert_bom_line(d2, article_id_of(d2, parsed.article_number),
                              part_id_of(d2, Upper(line.part_number)), line, 1)
        d4 == upsert_document(d3, docM, 1, 1, 1, "article",
                              article_id_of(d3, parsed.article_number), NoText, None)
    IN finish_import_run(d4, 1, "completed",
                         [IndexStats0 EXCEPT !.files_scanned = 1, !.boms_parsed = 1,
                                             !.lines_imported = 1])

\* A layout of the two data roots: the version of each file, 0 for the files
\* that do not exist, and the database found at the start.
Layout(a, b, c, d, dc, dlc, dn, dm, database) ==
    [db |-> database,
     bom |-> [f \in BomUniverse |->
                IF f = bomA THEN a ELSE IF f = bomB THEN b
                ELSE IF f = bomC THEN c ELSE d],
     doc |-> [f \in DocUniverse |->
                IF f = docC THEN dc ELSE IF f = docLowerC THEN dlc
                ELSE IF f = docN THEN dn ELSE dm]]

\* The layouts of the disk at the first start of the application.
InitialLayouts ==
    { Layout(1, 0, 1, 0, 1, 0, 1, 0, EmptyDb),
      Layout(2, 0, 1, 1, 1, 0, 1, 1, EmptyDb),
      Layout(3, 0, 1, 0, 1, 0, 0, 0, EmptyDb),
      Layout(4, 0, 1, 0, 0, 0, 1, 0, EmptyDb),
      Layout(0, 0, 0, 0, 0, 0, 0, 0, EmptyDb),
      Layout(0, 0, 1, 0, 0, 0, 0, 1, LegacyDb),
      Layout(1, 0, 0, 0, 1, 0, 0, 0, LegacyDb) }

Init ==
    /\ root \in DataRoots
    /\ \E l \in InitialLayouts :
          /\ bomDisk = l.bom
          /\ docDisk = l.doc
          /\ db = l.db
          /\ committed = l.db
          /\ hist = [NoHist EXCEPT !.latest[bomA] =
                        IF l.db = EmptyDb THEN << >>
                        ELSE parse_bom_file(bomA, BomVersions(bomA)[1].workbook).lines]
    /\ pc = "idle"
    /\ ix = NoFrame
    /\ dx = NoDocFrame
    /\ runs = 0
    /\ edited = FALSE
    /\ UiIdle

\* ------------------------------------------------------------------------
\* The environment: files change between two passes
\* ------------------------------------------------------------------------

\* A BOM file is created, overwritten or deleted.
ChangeBom(f, v) ==
    /\ pc = "idle"
    /\ ~edited
    /\ runs < MaxRuns
    /\ v \in 0..Len(BomVersions(f))
    /\ v # bomDisk[f]
    /\ bomDisk' = [bomDisk EXCEPT ![f] = v]
    /\ edited' = TRUE
    /\ UNCHANGED <<root, docDisk, db, committed, pc, ix, dx, runs, hist>>
    /\ UNCHANGED uivars

\* The user points the application to another data root (SettingsDialog).
ChangeRoot(r) ==
    /\ pc = "idle"
    /\ runs < MaxRuns
    /\ r # root
    /\ root' = r
    /\ UNCHANGED <<bomDisk, docDisk, db, committed, pc, ix, dx, runs, edited, hist>>
    /\ UNCHANGED uivars

\* ------------------------------------------------------------------------
\* run_index
\* ------------------------------------------------------------------------

\* run_index, lines 59-74: the run row is inserted and committed, the article
\* rows are read and the BOM files discovered.
StartRun(force) ==
    /\ pc = "idle"
    /\ runs < MaxRuns
    /\ LET d1 == start_import_run(db)
       IN /\ db' = d1
          /\ committed' = d1
          /\ ix' = [NoFrame EXCEPT
                      !.run_id = Len(d1.import_runs),
                      !.force_doc_relink = force,
                      !.existing_by_path = ExistingByPath(d1),
                      !.bom_files = SortedPaths(DiscoverBoms(root)),
                      !.stats.files_scanned = Cardinality(DiscoverBoms(root))]
          /\ hist' = [NoHist EXCEPT !.before = [articles |-> d1.articles,
                                                 bom_lines |-> d1.bom_lines,
                                                 documents |-> d1.documents],
                                    !.latest = hist.latest]
    /\ pc' = "boms"
    /\ runs' = runs + 1
    /\ edited' = FALSE
    /\ UNCHANGED <<root, bomDisk, docDisk, dx>>
    /\ UNCHANGED uivars

\* The except clause of the per-file try: count, log an error issue, commit.
FileFailed(d, f) ==
    /\ db' = log_issue(d, ix.run_id, "error", f, 0)
    /\ committed' = db'
    /\ ix' = [ix EXCEPT !.stats.errors_count = @ + 1,
                        !.bom_files = Tail(@),
                        !.article_id = NoId,
                        !.lines = << >>]
    /\ pc' = "boms"

\* lines 77-86: the file's size and mtime equal the recorded ones: continue
SkipBom ==
    /\ pc = "boms"
    /\ ix.bom_files # << >>
    /\ LET f == Head(ix.bom_files)
       IN /\ BomUnchanged(ix.existing_by_path, f, BomStat(f))
          /\ ix' = [ix EXCEPT !.bom_files = Tail(@)]
          /\ hist' = [hist EXCEPT !.outcome[f] = "skipped"]
    /\ UNCHANGED <<root, bomDisk, docDisk, db, committed, pc, dx, runs, edited>>
    /\ UNCHANGED uivars

\* line 87 raises: the workbook cannot be read
ParseFails ==
    /\ pc = "boms"
    /\ ix.bom_files # << >>
    /\ LET f == Head(ix.bom_files)
           parsed == parse_bom_file(f, BomStat(f).workbook)
       IN /\ ~BomUnchanged(ix.existing_by_path, f, BomStat(f))
          /\ parsed.raised
          /\ FileFailed(db, f)
          /\ hist' = [hist EXCEPT !.outcome[f] = "failed"]
    /\ UNCHANGED <<root, bomDisk, docDisk, dx, runs, edited>>
    /\ UNCHANGED uivars

\* lines 87-98: parse, upsert the article, clear its lines
BeginBom ==
    /\ pc = "boms"
    /\ ix.bom_files # << >>
    /\ LET f == Head(ix.bom_files)
           stat == BomStat(f)
           parsed == parse_bom_file(f, stat.workbook)
           d1 == upsert_article(db, parsed.article_number, parsed.source_file,
                                stat.mtime, stat.size)
           article_id == article_id_of(d1, parsed.article_number)
       IN /\ ~BomUnchanged(ix.existing_by_path, f, stat)
          /\ ~parsed.raised
          /\ db' = clear_article_lines_for_run(d1, article_id)
          /\ ix' = [ix EXCEPT !.boms_changed = TRUE,
                              !.article_id = article_id,
                              !.lines = parsed.lines]
          /\ hist' = [hist EXCEPT
                !.outcome[f] = "parsed",
                !.parsed[f] = parsed.lines,
                !.latest[f] = parsed.lines,
                !.deletes[f] = Cardinality({ l \in d1.bom_lines :
                                               l.article_id = article_id })]
    /\ pc' = "lines"
    /\ UNCHANGED <<root, bomDisk, docDisk, committed, dx, runs, edited>>
    /\ UNCHANGED uivars

\* lines 99-132, one iteration: a row without part number is logged and
\* skipped, any other row upserts its part and inserts one BOM line
ImportLine ==
    /\ pc = "lines"
    /\ ix.lines # << >>
    /\ LET f == Head(ix.bom_files)
           line == Head(ix.lines)
           d1 == upsert_part(db, Upper(line.part_number), line.description)
           part_id == part_id_of(d1, Upper(line.part_number))
       IN IF line.part_number = << >>
          THEN /\ db' = log_issue(db, ix.run_id, "warning", f, line.source_row_number)
               /\ ix' = [ix EXCEPT !.stats.warnings_count = @ + 1, !.lines = Tail(@)]
               /\ UNCHANGED <<committed, pc, hist>>
          ELSE IF ~line.raw_ok
          THEN \* json.dumps(raw_columns) raises inside insert_bom_line
               /\ FileFailed(d1, f)
               /\ hist' = [hist EXCEPT !.outcome[f] = "failed"]
          ELSE /\ db' = insert_bom_line(d1, ix.article_id, part_id, line, ix.run_id)
               /\ ix' = [ix EXCEPT !.stats.lines_imported = @ + 1, !.lines = Tail(@)]
               /\ hist' = [hist EXCEPT !.inserts[f] = @ + 1]
               /\ UNCHANGED <<committed, pc>>
    /\ UNCHANGED <<root, bomDisk, docDisk, dx, runs, edited>>
    /\ UNCHANGED uivars

\* lines 133-134: all rows are in, count the BOM and commit
CommitBom ==
    /\ pc = "lines"
    /\ ix.lines = << >>
    /\ committed' = db
    /\ ix' = [ix EXCEPT !.stats.boms_parsed = @ + 1,
                        !.bom_files = Tail(@),
                        !.article_id = NoId]
    /\ hist' = [hist EXCEPT !.outcome[Head(ix.bom_files)] = "replaced"]
    /\ pc' = "boms"
    /\ UNCHANGED <<root, bomDisk, docDisk, db, dx, runs, edited>>
    /\ UNCHANGED uivars

\* A document is created, overwritten or deleted.
ChangeDoc(f, v) ==
    /\ pc = "idle"
    /\ ~edited
    /\ runs < MaxRuns
    /\ v \in 0..Len(DocVersions(f))
    /\ v # docDisk[f]
    /\ docDisk' = [docDisk EXCEPT ![f] = v]
    /\ edited' = TRUE
    /\ UNCHANGED <<root, bomDisk, db, committed, pc, ix, dx, runs, hist>>
    /\ UNCHANGED uivars

\* is_path_within(path, data_root / folder)
is_path_within(path, r, folder) == path.root = r /\ path.folder = folder

\* MissingArticles without the test that the source lies inside the BOM root
MissingArticlesOfAnyRoot(d, r) ==
    { a \in d.articles : bomDisk[a.source_bom_path] = 0 }

\* the articles remove_missing_articles deletes: source inside the BOM root,
\* file gone
MissingArticles(d, r) ==
    { a \in d.articles : /\ is_path_within(a.source_bom_path, r, "BOMS")
                         /\ bomDisk[a.source_bom_path] = 0 }

\* a pruning that also deletes the parts no line refers to any more
remove_missing_articles_and_parts(d, r) ==
    LET gone == { a.id : a \in MissingArticles(d, r) }
        kept == { l \in d.bom_lines : l.article_id \notin gone }
    IN [d EXCEPT
          !.bom_lines = kept,
          !.documents = { x \in @ : ~(x.linked_to_type = "article"
                                      /\ x.linked_id \in gone) },
          !.articles = { a \in @ : a.id \notin gone },
          !.parts = { p \in @ : \E l \in kept : l.part_id = p.id }]

\* a pruning that deletes the article rows and leaves their lines
remove_missing_articles_only(d, r) ==
    LET gone == { a.id : a \in MissingArticles(d, r) }
    IN [d EXCEPT
          !.documents = { x \in @ : ~(x.linked_to_type = "article"
                                      /\ x.linked_id \in gone) },
          !.articles = { a \in @ : a.id \notin gone }]

\* remove_missing_articles: the rows left behind
remove_missing_articles(d, r) ==
    LET gone == { a.id : a \in MissingArticles(d, r) }
    IN [d EXCEPT
          !.bom_lines = { l \in @ : l.article_id \notin gone },
          !.documents = { x \in @ : ~(x.linked_to_type = "article"
                                      /\ x.linked_id \in gone) },
          !.articles = { a \in @ : a.id \notin gone }]

doc_folders == <<"PDF", "STEP-DXF", "SOP", "OVERIG">>

ManagedFolders == Range(doc_folders)

FolderIndex(folder) == CHOOSE i \in DOMAIN doc_folders : doc_folders[i] = folder

\* folder_path.rglob("*") over the document folders of the data root
DiscoverDocs(r) ==
    { f \in DocUniverse : f.root = r /\ f.folder \in ManagedFolders /\ docDisk[f] # 0 }

\* existing_by_path of index_documents: (size, mtime) by casefold()ed path,
\* a later row replacing an earlier one under the same key
ExistingDocsByPath(d) ==
    LET keys == { casefold_path(x.path) : x \in d.documents }
        rows(k) == { x \in d.documents : casefold_path(x.path) = k }
        last(k) == CHOOSE x \in rows(k) : \A y \in rows(k) : y.id <= x.id
    IN [k \in keys |-> <<last(k).size_bytes, last(k).modified_at>>]

\* the test of index_documents that lets a document be skipped
DocUnchanged(force_relink, existing, f, stat) ==
    /\ ~force_relink
    /\ casefold_path(f) \in DOMAIN existing
    /\ existing[casefold_path(f)][1] = stat.size
    /\ existing[casefold_path(f)][2] = stat.mtime

DocStat(f) == DocVersions(f)[docDisk[f]]

\* remove_missing_documents without the test that the file still exists
remove_unseen_documents(d, r, seen_paths) ==
    [d EXCEPT !.documents = { x \in @ :
        \/ ~(\E folder \in ManagedFolders : is_path_within(x.path, r, folder))
        \/ casefold_path(x.path) \in seen_paths }]

\* remove_missing_documents: the rows left behind
remove_missing_documents(d, r, seen_paths) ==
    [d EXCEPT !.documents = { x \in @ :
        /\ docDisk[x.path] # 0
        /\ \/ ~(\E folder \in ManagedFolders : is_path_within(x.path, r, folder))
           \/ casefold_path(x.path) \in seen_paths }]

\* lines 145-147 of run_index and 167-177 of index_documents: stale articles
\* are removed, then the document rows and the parts are read
PruneArticles ==
    /\ pc = "boms"
    /\ ix.bom_files = << >>
    /\ LET d1 == remove_missing_articles(db, root)
           removed == Cardinality(MissingArticles(db, root))
       IN /\ db' = d1
          /\ ix' = [ix EXCEPT !.removed_articles = removed]
          /\ dx' = [force_relink |-> ix.force_doc_relink \/ ix.boms_changed
                                      \/ removed > 0,
                    existing_by_path |-> ExistingDocsByPath(d1),
                    parts_cache |-> load_parts_cache(d1),
                    seen_paths |-> {},
                    todo |-> DiscoverDocs(root)]
    /\ pc' = "docs"
    /\ UNCHANGED <<root, bomDisk, docDisk, committed, runs, edited, hist>>
    /\ UNCHANGED uivars

\* the next file the loops of index_documents reach: the folders in order,
\* the files of one folder in the order the file system lists them
NextDocs == { f \in dx.todo :
                \A g \in dx.todo : FolderIndex(f.folder) <= FolderIndex(g.folder) }

\* lines 185-192: the document's size and mtime equal the stored ones: continue
SkipDoc(f) ==
    /\ pc = "docs"
    /\ f \in NextDocs
    /\ DocUnchanged(dx.force_relink, dx.existing_by_path, f, DocStat(f))
    /\ dx' = [dx EXCEPT !.todo = @ \ {f},
                        !.seen_paths = @ \cup {casefold_path(f)}]
    /\ hist' = [hist EXCEPT !.doc_outcome[f] = "skipped"]
    /\ UNCHANGED <<root, bomDisk, docDisk, db, committed, pc, ix, runs, edited>>
    /\ UNCHANGED uivars

\* the link with the reason of the exact step kept as it is
DecideLinkUnclassified(d, filename, exact, fallback) ==
    IF exact.part_id # NoId
    THEN [linked_to_type |-> "part", linked_id |-> exact.part_id,
          part_revision |-> exact.part_revision, link_reason |-> exact.link_reason]
    ELSE IF fallback # NoId
    THEN [linked_to_type |-> "part", linked_id |-> fallback,
          part_revision |-> exact.part_revision,
          link_reason |-> "matched_part_fallback"]
    ELSE [linked_to_type |-> None, linked_id |-> NoId,
          part_revision |-> exact.part_revision, link_reason |-> exact.link_reason]

\* lines 197-208 of index_documents: the link, given the result of the
\* exact step and of the fallback
DecideLink(d, filename, exact, fallback) ==
    IF exact.part_id # NoId
    THEN [linked_to_type |-> "part", linked_id |-> exact.part_id,
          part_revision |-> exact.part_revision, link_reason |-> exact.link_reason]
    ELSE IF fallback # NoId
    THEN [linked_to_type |-> "part", linked_id |-> fallback,
          part_revision |-> exact.part_revision,
          link_reason |-> "matched_part_fallback"]
    ELSE [linked_to_type |-> None, linked_id |-> NoId,
          part_revision |-> exact.part_revision,
          link_reason |-> IF exact.link_reason = None
                          THEN classify_unmatched_reason(d, filename)
                          ELSE exact.link_reason]

\* lines 193-208: the link index_documents decides for a file name
match_document(d, filename, cache) ==
    DecideLink(d, filename, find_part_match_with_revision(d, filename),
               find_part_id_from_name(d, filename, cache))

\* upsert_document with the link decided for the file
StoreLink(d, f, stat, run_id, link) ==
    upsert_document(d, f, stat.size, stat.mtime, run_id,
                    link.linked_to_type, link.linked_id,
                    link.part_revision, link.link_reason)

\* lines 185-222: a new or changed document, or any document under a forced
\* relink, is matched and upserted
MatchDoc(f) ==
    /\ pc = "docs"
    /\ f \in NextDocs
    /\ ~DocUnchanged(dx.force_relink, dx.existing_by_path, f, DocStat(f))
    /\ db' = StoreLink(db, f, DocStat(f), ix.run_id,
                       match_document(db, f.name, dx.parts_cache))
    /\ dx' = [dx EXCEPT !.todo = @ \ {f},
                        !.seen_paths = @ \cup {casefold_path(f)}]
    /\ hist' = [hist EXCEPT !.doc_outcome[f] = "matched"]
    /\ UNCHANGED <<root, bomDisk, docDisk, committed, pc, ix, runs, edited>>
    /\ UNCHANGED uivars

\* line 187 raises: the file was listed but is gone when stat() is called.
\* The exception leaves index_documents and the try of run_index: the run is
\* marked failed, the connection commits, the exception reaches the caller.
DocVanishes(f) ==
    /\ pc = "docs"
    /\ f \in NextDocs
    /\ ~edited
    /\ docDisk' = [docDisk EXCEPT ![f] = 0]
    /\ edited' = TRUE
    /\ db' = finish_import_run_failed(db, ix.run_id)
    /\ committed' = db'
    /\ dx' = [dx EXCEPT !.seen_paths = @ \cup {casefold_path(f)}]
    /\ hist' = [hist EXCEPT !.doc_outcome[f] = "raised", !.ended = "raised"]
    /\ pc' = "idle"
    /\ UNCHANGED <<root, bomDisk, ix, runs>>
    /\ UNCHANGED uivars

\* lines 223-224: stale document rows are removed, the connection commits
PruneDocs ==
    /\ pc = "docs"
    /\ dx.todo = {}
    /\ db' = remove_missing_documents(db, root, dx.seen_paths)
    /\ committed' = db'
    /\ pc' = "finish"
    /\ UNCHANGED <<root, bomDisk, docDisk, ix, dx, runs, edited, hist>>
    /\ UNCHANGED uivars

\* lines 148-159: the terminal status is written and the statistics returned
FinishRun ==
    /\ pc = "finish"
    /\ LET status == IF ix.stats.warnings_count > 0 \/ ix.stats.errors_count > 0
                     THEN "completed_with_warnings" ELSE "completed"
       IN db' = finish_import_run(db, ix.run_id, status, ix.stats)
    /\ committed' = db'
    /\ hist' = [hist EXCEPT !.ended = "returned"]
    /\ pc' = "idle"
    /\ UNCHANGED <<root, bomDisk, docDisk, ix, dx, runs, edited>>
    /\ UNCHANGED uivars

\* The caller abandons the background worker (the process ends while the
\* daemon thread runs): the open transaction of its connection is rolled back.
Abandon ==
    /\ pc \notin {"idle", "abandoned"}
    /\ db' = committed
    /\ pc' = "abandoned"
    /\ ix' = NoFrame
    /\ dx' = NoDocFrame
    /\ hist' = [NoHist EXCEPT !.ended = "abandoned", !.latest = hist.latest,
                              !.before = hist.before]
    /\ UNCHANGED <<root, bomDisk, docDisk, committed, runs, edited>>
    /\ UNCHANGED uivars

Next ==
    \/ \E f \in BomUniverse, v \in 0..4 : ChangeBom(f, v)
    \/ \E f \in DocUniverse, v \in 0..2 : ChangeDoc(f, v)
    \/ \E r \in DataRoots : ChangeRoot(r)
    \/ \E force \in BOOLEAN : StartRun(force)
    \/ SkipBom
    \/ ParseFails
    \/ BeginBom
    \/ ImportLine
    \/ CommitBom
    \/ PruneArticles
    \/ \E f \in DocUniverse : SkipDoc(f)
    \/ \E f \in DocUniverse : MatchDoc(f)
    \/ \E f \in DocUniverse : DocVanishes(f)
    \/ PruneDocs
    \/ FinishRun
    \/ Abandon

Spec == Init /\ [][Next]_vars

\* ------------------------------------------------------------------------
\* Passes over a data root that was indexed before
\* ------------------------------------------------------------------------

\* The database after a completed pass over root R1 holding the first
\* version of bomA and the document docC: article 100 with its line, and the
\* row of docC with the link index_documents decides on these tables.
IndexedDb ==
    LET stat == BomVersions(bomA)[1]
        parsed == parse_bom_file(bomA, stat.workbook)
        line == parsed.lines[1]
        d1 == upsert_article(start_import_run(EmptyDb), parsed.article_number,
                             bomA, stat.mtime, stat.size)
        d2 == upsert_part(d1, Upper(line.part_number), line.description)
        d3 == insert_bom_line(d2, article_id_of(d2, parsed.article_number),
                              part_id_of(d2, Upper(line.part_number)), line, 1)
        d4 == StoreLink(d3, docC, DocVersions(docC)[1], 1,
                        match_document(d3, docC.name, load_parts_cache(d3)))
    IN finish_import_run(d4, 1, "completed",
                         [IndexStats0 EXCEPT !.files_scanned = 1, !.boms_parsed = 1,
                                             !.lines_imported = 1])

\* the application starts again on the indexed root, the files as they were
RelinkInit ==
    /\ root = "R1"
    /\ bomDisk = [f \in BomUniverse |-> IF f = bomA THEN 1 ELSE 0]
    /\ docDisk = [f \in DocUniverse |-> IF f = docC THEN 1 ELSE 0]
    /\ db = IndexedDb
    /\ committed = IndexedDb
    /\ hist = [NoHist EXCEPT !.latest[bomA] =
                  parse_bom_file(bomA, BomVersions(bomA)[1].workbook).lines]
    /\ pc = "idle"
    /\ ix = NoFrame
    /\ dx = NoDocFrame
    /\ runs = 0
    /\ edited = FALSE
    /\ UiIdle

\* The application is started again after its process ended during a pass;
\* run_ui then runs the startup pass on the tables as last committed.
Restart ==
    /\ pc = "abandoned"
    /\ pc' = "idle"
    /\ UNCHANGED <<root, bomDisk, docDisk, db, committed, ix, dx, runs, edited, hist>>
    /\ UNCHANGED uivars

RelinkNext ==
    \/ Next
    \/ Restart

RelinkSpec == RelinkInit /\ [][RelinkNext]_vars

\* ------------------------------------------------------------------------
\* find_part_match_with_revision on its own: the tables are filled line by
\* line and the function is called with a file name
\* ------------------------------------------------------------------------

\* number of BOM lines ever inserted into the tables under test
MaxLines == 3

\* the file name of the specification's example, next to the names of the
\* document universe
nameB == <<"1","5","-","0","0","4","0","7","_","B",".","P","D","F">>

ProbeNames == { f.name : f \in DocUniverse } \cup { nameB }

\* the revisions a BOM line carries: none, or the text of the cell
ProbeRevisions == { NoText, <<"b">>, <<"B">>, <<"C">> }

ProbeParts == { pn407, pn503 }

\* the pass variables at rest, with no file on disk
PassIdle ==
    /\ root = "R1"
    /\ bomDisk = [f \in BomUniverse |-> 0]
    /\ docDisk = [f \in DocUniverse |-> 0]
    /\ committed = EmptyDb
    /\ pc = "idle"
    /\ ix = NoFrame
    /\ dx = NoDocFrame
    /\ runs = 0
    /\ edited = FALSE
    /\ hist = NoHist

MatchInit ==
    /\ PassIdle
    /\ db = EmptyDb
    /\ UiIdle

\* lines 112-131 of run_index: one BOM line of a part is stored
IndexLine(pn, rev) ==
    /\ db.seq_bom_lines < MaxLines
    /\ LET d1 == upsert_part(db, Upper(pn), NoText)
       IN db' = insert_bom_line(d1, NoId, part_id_of(d1, Upper(pn)),
                                Row(pn, rev, NoText, d1.seq_bom_lines + 2, TRUE), NoId)
    /\ probe' = NoProbe
    /\ UNCHANGED passvars /\ UNCHANGED ordervars

\* clear_article_lines_for_run: the lines are deleted, the parts stay
ClearLines ==
    /\ db.bom_lines # {}
    /\ db' = clear_article_lines_for_run(db, NoId)
    /\ probe' = NoProbe
    /\ UNCHANGED passvars /\ UNCHANGED ordervars

\* find_part_match_with_revision(conn, filename)
Probe(filename) ==
    /\ probe' = [filename |-> filename,
                 result |-> find_part_match_with_revision(db, filename)]
    /\ UNCHANGED db
    /\ UNCHANGED passvars /\ UNCHANGED ordervars

MatchNext ==
    \/ \E pn \in ProbeParts, rev \in ProbeRevisions : IndexLine(pn, rev)
    \/ ClearLines
    \/ \E filename \in ProbeNames : Probe(filename)

MatchSpec == MatchInit /\ [][MatchNext]_vars

\* ------------------------------------------------------------------------
\* search.py and ui.py: the BOM tree of the displayed Article
\* ------------------------------------------------------------------------

\* one token before the other: (0, int) before (1, text), then by value
TokenLess(a, b) ==
    IF a.kind # b.kind THEN a.kind < b.kind
    ELSE IF a.number # b.number THEN a.number < b.number
    ELSE StrLess(a.text, b.text)

\* tuple comparison of two token lists: the first difference decides, a
\* proper prefix comes first
TokensLess(a, b) ==
    LET differ == { i \in DOMAIN a \cap DOMAIN b : a[i] # b[i] }
    IN IF differ = {} THEN Len(a) < Len(b)
       ELSE LET i == CHOOSE k \in differ : \A j \in differ : k <= j
            IN TokenLess(a[i], b[i])

\* bom_line_sort_key: lines with an item number first, by its tokens, then
\* the lines with a line number only, by that number, then the lines with
\* neither; the part number decides among equal keys.
bom_line_sort_key(row) ==
    IF row.item_no # NoText
    THEN [group |-> 0, tokens |-> row.sort_tokens, part_number |-> row.part_number]
    ELSE IF row.line_no # NoLineNo
    THEN [group |-> 1, tokens |-> << [kind |-> 0, number |-> row.line_no, text |-> << >>] >>,
          part_number |-> row.part_number]
    ELSE [group |-> 2, tokens |-> << >>, part_number |-> row.part_number]

KeyLess(a, b) ==
    IF a.group # b.group THEN a.group < b.group
    ELSE IF a.tokens # b.tokens THEN TokensLess(a.tokens, b.tokens)
    ELSE StrLess(a.part_number, b.part_number)

\* sorted(rows, key=bom_line_sort_key) is stable and the rows come in rowid order
LineBefore(a, b) ==
    \/ KeyLess(bom_line_sort_key(a), bom_line_sort_key(b))
    \/ (bom_line_sort_key(a) = bom_line_sort_key(b) /\ a.id < b.id)

\* the row x put in its place in the sorted list
RECURSIVE Inserted(_, _)
Inserted(sorted, x) ==
    IF sorted = << >> THEN <<x>>
    ELSE IF LineBefore(x, Head(sorted)) THEN <<x>> \o sorted
    ELSE <<Head(sorted)>> \o Inserted(Tail(sorted), x)

RECURSIVE SortedLines(_)
SortedLines(S) ==
    IF S = {} THEN << >>
    ELSE LET x == CHOOSE y \in S : TRUE
         IN Inserted(SortedLines(S \ {x}), x)

\* get_article_bom_lines: the lines of the Article joined with their parts
get_article_bom_lines(d, article_id) ==
    SortedLines({ [id |-> l.id, part_id |-> l.part_id, item_no |-> l.item_no,
                   sort_tokens |-> l.sort_tokens, line_no |-> l.line_no,
                   part_number |-> (CHOOSE p \in d.parts : p.id = l.part_id).part_number,
                   qty |-> l.qty, revision |-> l.revision]
                  : l \in { x \in d.bom_lines : x.article_id = article_id } })

\* get_article
get_article(d, article_id) == { a \in d.articles : a.id = article_id }

\* re.findall(r"\d{3,}", raw): the maximal runs of three or more digits
DigitTokens(raw) ==
    { SubSeq(raw, i, i + DigitRun(raw, i) - 1) :
        i \in { k \in DOMAIN raw : /\ DigitRun(raw, k) >= 3
                                   /\ (k = 1 \/ ~IsDigit(raw[k - 1])) } }

\* the digit tokens with the shortest first
RECURSIVE ShortestFirst(_)
ShortestFirst(S) ==
    IF S = {} THEN << >>
    ELSE LET first == CHOOSE t \in S : \A u \in S \ {t} :
                          Len(t) < Len(u) \/ (Len(t) = Len(u) /\ StrLess(t, u))
         IN <<first>> \o ShortestFirst(S \ {first})

\* sorted(set(digit_tokens), key=lambda v: (-len(v), v))
RECURSIVE SortedTokens(_)
SortedTokens(S) ==
    IF S = {} THEN << >>
    ELSE LET first == CHOOSE t \in S : \A u \in S \ {t} :
                          Len(t) > Len(u) \/ (Len(t) = Len(u) /\ StrLess(t, u))
         IN <<first>> \o SortedTokens(S \ {first})

\* str.lstrip("0")
RECURSIVE lstrip0(_)
lstrip0(token) ==
    IF token # << >> /\ Head(token) = "0" THEN lstrip0(Tail(token)) ELSE token

\* the loop of article_number_candidates over the sorted digit tokens
RECURSIVE ExtendCandidates(_, _)
ExtendCandidates(candidates, tokens) ==
    IF tokens = << >> THEN candidates
    ELSE LET token == Head(tokens)
             c1 == IF token \in Range(candidates) THEN candidates
                   ELSE Append(candidates, token)
             trimmed == lstrip0(token)
             c2 == IF trimmed # << >> /\ trimmed \notin Range(c1)
                   THEN Append(c1, trimmed) ELSE c1
         IN ExtendCandidates(c2, Tail(tokens))

\* article_number_candidates: the part number itself, then its digit runs
article_number_candidates(part_number) ==
    IF part_number = NoText THEN << >>
    ELSE ExtendCandidates(<<part_number>>, SortedTokens(DigitTokens(part_number)))

\* resolve_article_ref_id: the first candidate that names an Article
resolve_article_ref_id(d, part_number) ==
    LET candidates == article_number_candidates(part_number)
        hits == { i \in DOMAIN candidates : ArticleByNumber(d, candidates[i]) # {} }
    IN IF hits = {} THEN NoId
       ELSE article_id_of(d, candidates[CHOOSE i \in hits : \A j \in hits : i <= j])

\* get_article_ids_by_numbers: article number -> id, for the numbers of the
\* list that name an Article (one SELECT ... WHERE article_number IN (...))
get_article_ids_by_numbers(d, article_numbers) ==
    [n \in { a.article_number : a \in d.articles } \cap article_numbers |-> article_id_of(d, n)]

\* resolve_article_ref_map: part number -> child Article. The candidates of
\* all lines are looked up in one query, then each part takes the first of
\* its candidates that was found (NoId where the dict has no entry).
resolve_article_ref_map(d, lines) ==
    LET parts == { lines[i].part_number : i \in DOMAIN lines }
        candidates == UNION { Range(article_number_candidates(part)) : part \in parts }
        found == get_article_ids_by_numbers(d, candidates)
        first(part) ==
            LET own == article_number_candidates(part)
                hits == { i \in DOMAIN own : own[i] \in DOMAIN found }
            IN IF hits = {} THEN NoId
               ELSE found[own[CHOOSE i \in hits : \A j \in hits : i <= j]]
    IN [part \in parts |-> first(part)]

\* the item number cut at its first dot
first_item_token(item_no) ==
    LET dots == { i \in DOMAIN item_no : item_no[i] = "." }
    IN IF dots = {} THEN NoText
       ELSE SubSeq(item_no, 1, (CHOOSE i \in dots : \A j \in dots : i <= j) - 1)

\* parent_item_no: the item number without its last dotted token
parent_item_no(item_no) ==
    IF LastDot(item_no) = 0 THEN NoText
    ELSE SubSeq(item_no, 1, LastDot(item_no) - 1)

\* One item of the tree, built from one line (display_article_by_id, the
\* loop over lines): text is column 0, data4 the quantity the item carries,
\* qty the stored quantity it was built from, parent the index of the item
\* it hangs under, 0 for the root item.
TreeItem(line, child_article_id, parent) ==
    [line_id |-> line.id, text |-> line.item_no, part_number |-> line.part_number,
     revision |-> line.revision, part_id |-> line.part_id,
     data4 |-> IF line.qty # NoQty THEN line.qty ELSE 1,
     qty |-> line.qty,
     node_type |-> IF child_article_id # NoId THEN "assembly_ref" ELSE "part",
     child_article_id |-> child_article_id, parent |-> parent]

\* items_by_item_no.get(parent_item_no(item_no)): the latest earlier line
\* that carries the parent's item number, 0 (the root item) when none does
ParentIndex(lines, i) ==
    LET wanted == parent_item_no(lines[i].item_no)
        found == { j \in 1..(i - 1) : lines[j].item_no # NoText /\ lines[j].item_no = wanted }
    IN IF found = {} THEN 0 ELSE CHOOSE j \in found : \A k \in found : k <= j

\* the loop over lines of display_article_by_id: one item per line, in order
BuildTree(lines, ref_map) ==
    [i \in DOMAIN lines |->
        TreeItem(lines[i], ref_map[lines[i].part_number], ParentIndex(lines, i))]

\* item.child(0..childCount()-1): the items under item i (0 for the root)
Children(tree, i) ==
    LET kids == { k \in DOMAIN tree : tree[k].parent = i }
    IN [n \in 1..Cardinality(kids) |->
          CHOOSE k \in kids : Cardinality({ j \in kids : j < k }) = n - 1]

\* ------------------------------------------------------------------------
\* ui.py: the order cart and the explosion of a BOM into it
\* ------------------------------------------------------------------------

\* depth > 20 in the three recursive routines
MaxDepth == 20

\* add-to-order calls in one behaviour
MaxOrders == 2

\* how far down the tree the item the user selects lies
MaxPosition == 4

\* the numbers of the Articles the user opens
Shown == { <<"1","0","0">>, <<"2","0","0">>, <<"3","0","0">>, <<"1","0","0","0">>, <<"1","0","0","1">> }

\* the row ids an Article can have
ArticleIds == 1..(MaxDepth + 2)

\* the quantity multipliers the user enters (QInputDialog.getInt, 1..100000)
Multipliers == {1, 2}

\* str(n) of a non-negative integer
RECURSIVE ToStr(_)
ToStr(n) == IF n < 10 THEN <<DigitSeq[n + 1]>> ELSE ToStr(n \div 10) \o <<DigitSeq[(n % 10) + 1]>>

\* f"{article_id}|{item_no}|{part_number}|{revision}"
cart_key(article_id, item_no, part_number, revision) ==
    ToStr(article_id) \o <<"|">> \o item_no \o <<"|">> \o part_number \o <<"|">> \o revision

\* order_cart[key]: a new entry with qty_total 0.0 unless the key is present,
\* then qty_total += qty
AddToCart(cart, article_id, item_no, part_id, part_number, revision, qty) ==
    LET key == cart_key(article_id, item_no, part_number, revision)
        entry == IF key \in DOMAIN cart THEN cart[key]
                 ELSE [cart_key |-> key, article_id |-> article_id, item_no |-> item_no,
                       part_id |-> part_id, part_number |-> part_number,
                       revision |-> revision, qty_total |-> 0]
    IN [k \in DOMAIN cart \cup {key} |->
          IF k = key THEN [entry EXCEPT !.qty_total = @ + qty] ELSE cart[k]]

\* item.data(4) or 1.0
Data4(item) == IF item.data4 = 0 THEN 1 ELSE item.data4

\* the quantity a stored line stands for, a missing one counting as 1
BomQty(qty) == IF qty = NoQty THEN 1 ELSE qty

\* What the cart was given: the key fields, the quantity added, and for
\* stating properties the call that gave it, the quantity the path of BOM
\* quantities amounts to, and how the leaf was reached.
Given(article_id, item_no, part_number, revision, qty, f, via, line_id, line_qty) ==
    [article_id |-> article_id, item_no |-> item_no, part_number |-> part_number,
     revision |-> revision, qty |-> qty, order |-> orders, depth |-> f.depth,
     path_qty |-> f.product * BomQty(line_qty), via |-> via, line_id |-> line_id,
     below_ref |-> f.below_ref]

\* add_leaf_to_cart: the tree item is added under the displayed Article
\* (every item was built from a line, so part number and part id are set)
add_leaf_to_cart(cart, item, qty_factor) ==
    AddToCart(cart, current_article_id, item.text, item.part_id, item.part_number,
              Upper(item.revision), Data4(item) * qty_factor)

\* add_leaf_row_to_cart: the line is added under the Article it belongs to
add_leaf_row_to_cart(cart, line, source_article_id, qty_effective) ==
    AddToCart(cart, source_article_id, line.item_no, line.part_id, line.part_number,
              Upper(line.revision), qty_effective)

\* the warnings, as the texts tr() formats: only the cycle, the missing
\* sub-assembly and the no-lines warning carry an argument
Warning(kind, arg) == [kind |-> kind, arg |-> arg]

warn_max_depth == Warning("warn_max_depth", NoText)

\* list(dict.fromkeys(warnings)): first occurrences, in order
Unique(ws) ==
    LET firsts == { i \in DOMAIN ws : \A j \in 1..(i - 1) : ws[j] # ws[i] }
    IN [n \in 1..Cardinality(firsts) |->
          ws[CHOOSE i \in firsts : Cardinality({ j \in firsts : j < i }) = n - 1]]

\* One activation of a routine: its arguments, how far its loop has come
\* (idx, 0 before its first statement) and the lines it loops over. product
\* and below_ref serve the properties: the multiplier times the stored
\* quantities of the lines passed on the way, and whether one of those lines
\* was a sub-assembly reference whose tree children were entered.
Call(fn, item, article_id, qty_factor, visited, depth, include_self_leaf, product, below_ref) ==
    [fn |-> fn, item |-> item, article_id |-> article_id, qty_factor |-> qty_factor,
     visited |-> visited, depth |-> depth, include_self_leaf |-> include_self_leaf,
     idx |-> 0, lines |-> << >>, product |-> product, below_ref |-> below_ref]

\* the activation of add_selected_bom_to_order itself: the calls it has
\* still to make, one per item
TopCall(fn, items, visited, multiplier) ==
    [Call(fn, 0, NoId, multiplier, visited, 0, TRUE, multiplier, FALSE) EXCEPT !.lines = items]

Top == calls[Len(calls)]

Pop == SubSeq(calls, 1, Len(calls) - 1)

Modes == {"children", "selected", "both"}

TreeRoutine(mode) ==
    IF mode = "children" THEN "add_tree_children_to_cart" ELSE "add_tree_full_to_cart"

\* a depth test that lets one more level pass
TooDeepByTwo(f) == f.depth > MaxDepth + 1

\* if depth > 20, the first statement of the three recursive routines
TooDeep(f) == f.depth > MaxDepth

\* What one step of a routine leaves behind: the call stack, the cart, the
\* warnings, the tree (its items are re-typed when a part turns out to name
\* an Article), the number of leaves added and the ledger.
Outcome(stack, cart, ws, tree, added, given) ==
    [calls |-> stack, order_cart |-> cart, warnings |-> ws, bom_tree |-> tree,
     added |-> added, ledger |-> given]

Returns(ws) == Outcome(Pop, order_cart, ws, bom_tree, 0, ledger)

\* the loop over item.child(idx): the call for child k, or the return after
\* the last one
ChildLoop(f, item, kids, k, cart, added, given) ==
    IF k > Len(kids) THEN Outcome(Pop, cart, warnings, bom_tree, added, given)
    ELSE Outcome(Append(Append(Pop, [f EXCEPT !.idx = k + 1]),
                        Call(f.fn, kids[k], NoId, f.qty_factor * Data4(item), f.visited,
                             f.depth + 1, TRUE, f.product * BomQty(item.qty),
                             f.below_ref \/ item.node_type = "assembly_ref"
                                         \/ resolve_article_ref_id(db, item.part_number) # NoId)),
                 cart, warnings, bom_tree, added, given)

\* return self.add_article_children_to_cart(...) at the end of a tree
\* routine: the call takes the place of its caller
EnterArticle(f, item, child_article_id, tree, cart, added, given) ==
    Outcome(Append(Pop, Call("add_article_children_to_cart", f.item, child_article_id,
                             f.qty_factor * Data4(item), f.visited \cup {child_article_id},
                             f.depth + 1, TRUE, f.product * BomQty(item.qty), f.below_ref)),
            cart, warnings, tree, added, given)

\* The part of both tree routines below the loop over the children: an
\* assembly_ref item enters the Article it caches, a part item that resolves
\* to an Article is re-typed and enters it, any other item is a leaf.
\* (The branch for node type "article" is never taken: only the root item
\* has that type and it is never passed to a routine.)
RefOrLeaf(f, item, cart, added, given, leaf) ==
    LET resolved == resolve_article_ref_id(db, item.part_number)
        cached == IF item.child_article_id # NoId THEN item.child_article_id ELSE resolved
    IN IF item.node_type = "assembly_ref"
       THEN IF cached = NoId
            THEN Outcome(Pop, cart, Append(warnings, Warning("warn_missing_subassembly", item.part_number)),
                         bom_tree, added, given)
            ELSE EnterArticle(f, item, cached,
                              [bom_tree EXCEPT ![f.item].child_article_id = cached],
                              cart, added, given)
       ELSE IF resolved # NoId
       THEN EnterArticle(f, item, resolved,
                         [bom_tree EXCEPT ![f.item].node_type = "assembly_ref",
                                          ![f.item].child_article_id = resolved],
                         cart, added, given)
       ELSE leaf

\* the leaf an item gives the cart
GivenItem(f, item) ==
    Given(current_article_id, item.text, item.part_number, Upper(item.revision),
          Data4(item) * f.qty_factor, f, "tree", item.line_id, item.qty)

\* add_tree_children_to_cart, one step of the top activation
add_tree_children_to_cart(f) ==
    LET item == bom_tree[f.item]
        kids == Children(bom_tree, f.item)
    IN IF f.idx > 0 THEN ChildLoop(f, item, kids, f.idx, order_cart, 0, ledger)
       ELSE IF TooDeep(f) THEN Returns(Append(warnings, warn_max_depth))
       ELSE IF kids # << >> THEN ChildLoop(f, item, kids, 1, order_cart, 0, ledger)
       ELSE RefOrLeaf(f, item, order_cart, 0, ledger,
              IF ~f.include_self_leaf THEN Returns(warnings)
              ELSE Outcome(Pop, add_leaf_to_cart(order_cart, item, f.qty_factor), warnings,
                           bom_tree, 1, Append(ledger, GivenItem(f, item))))

\* add_tree_full_to_cart, one step of the top activation
add_tree_full_to_cart(f) ==
    LET item == bom_tree[f.item]
        kids == Children(bom_tree, f.item)
        cart == add_leaf_to_cart(order_cart, item, f.qty_factor)
        given == Append(ledger, GivenItem(f, item))
    IN IF f.idx > 0 THEN ChildLoop(f, item, kids, f.idx, order_cart, 0, ledger)
       ELSE IF TooDeep(f) THEN Returns(Append(warnings, warn_max_depth))
       ELSE IF kids # << >> THEN ChildLoop(f, item, kids, 1, cart, 1, given)
       ELSE RefOrLeaf(f, item, cart, 1, given,
                      Outcome(Pop, cart, warnings, bom_tree, 1, given))

\* add_article_children_to_cart, one step of the top activation: the entry,
\* which reads the lines, or one pass of the loop over them
add_article_children_to_cart(f) ==
    LET lines == get_article_bom_lines(db, f.article_id)
        line == f.lines[f.idx]
        line_qty == IF line.qty # NoQty THEN line.qty ELSE 1
        effective_qty == f.qty_factor * line_qty
        child_id == resolve_article_ref_id(db, line.part_number)
        next == Append(Pop, [f EXCEPT !.idx = @ + 1])
    IN IF f.idx = 0
       THEN IF TooDeep(f) THEN Returns(Append(warnings, warn_max_depth))
            ELSE IF lines = << >>
            THEN Returns(Append(warnings, Warning("warn_subassembly_no_lines", ToStr(f.article_id))))
            ELSE Outcome(Append(Pop, [f EXCEPT !.idx = 1, !.lines = lines]),
                         order_cart, warnings, bom_tree, 0, ledger)
       ELSE IF f.idx > Len(f.lines) THEN Returns(warnings)
       ELSE IF child_id # NoId
       THEN IF child_id \in f.visited
            THEN Outcome(next, order_cart,
                         Append(warnings, Warning("warn_cycle_detected", line.part_number)),
                         bom_tree, 0, ledger)
            ELSE Outcome(Append(next, Call(f.fn, f.item, child_id, effective_qty,
                                           f.visited \cup {child_id}, f.depth + 1, TRUE,
                                           f.product * BomQty(line.qty), f.below_ref)),
                         order_cart, warnings, bom_tree, 0, ledger)
       ELSE Outcome(next,
                    add_leaf_row_to_cart(order_cart, line, f.article_id, effective_qty),
                    warnings, bom_tree, 1,
                    Append(ledger, Given(f.article_id, line.item_no, line.part_number,
                                         Upper(line.revision), effective_qty, f, "row",
                                         line.id, line.qty)))

\* a step of a routine takes effect
Effect(r) ==
    /\ calls' = r.calls
    /\ order_cart' = r.order_cart
    /\ warnings' = r.warnings
    /\ bom_tree' = r.bom_tree
    /\ ledger' = r.ledger
    /\ op' = [op EXCEPT !.added_lines = @ + r.added]
    /\ UNCHANGED <<db, probe, current_article_id, orders, threads>>
    /\ UNCHANGED passvars

\* display_article_by_id: the tree of the Article is built from its lines
DisplayArticle(article_id) ==
    /\ op.state # "running"
    /\ get_article(db, article_id) # {}
    /\ \A a \in get_article(db, article_id) : a.article_number \in Shown
    /\ current_article_id' = article_id
    /\ LET lines == get_article_bom_lines(db, article_id)
       IN bom_tree' = BuildTree(lines, resolve_article_ref_map(db, lines))
    /\ UNCHANGED <<db, probe, order_cart, calls, warnings, op, orders, ledger, threads>>
    /\ UNCHANGED passvars

\* add_selected_bom_to_order up to its first call: current is the selected
\* item (0 the root item), mode and multiplier the answers to the two dialogs
AddSelectedBomToOrder(current, mode, multiplier) ==
    /\ op.state # "running"
    /\ orders < MaxOrders
    /\ current_article_id # NoId
    /\ current \in 0..Len(bom_tree)
    /\ orders' = orders + 1
    /\ warnings' = << >>
    /\ LET leaf == current # 0 /\ mode = "selected"
           f == TopCall(TreeRoutine(mode),
                        IF mode = "selected" THEN << >>
                        ELSE IF current = 0 THEN Children(bom_tree, 0)
                        ELSE <<current>>,
                        IF current = 0 THEN {current_article_id} ELSE {},
                        multiplier)
       IN /\ calls' = << [f EXCEPT !.include_self_leaf = (current = 0 \/ mode # "children")] >>
          /\ op' = [state |-> "running", mode |-> mode, multiplier |-> multiplier,
                    current |-> current, added_lines |-> IF leaf THEN 1 ELSE 0,
                    unique_warnings |-> << >>]
          /\ order_cart' = IF leaf THEN add_leaf_to_cart(order_cart, bom_tree[current], multiplier)
                           ELSE order_cart
          /\ ledger' = IF leaf
                       THEN Append(ledger, [GivenItem(f, bom_tree[current]) EXCEPT !.order = orders + 1])
                       ELSE ledger
    /\ UNCHANGED <<db, probe, current_article_id, bom_tree, threads>>
    /\ UNCHANGED passvars

\* add_selected_bom_to_order: the next call of a tree routine
CallTreeRoutine ==
    /\ calls # << >>
    /\ Len(calls) = 1
    /\ Top.lines # << >>
    /\ calls' = << [Top EXCEPT !.lines = Tail(@)],
                   Call(Top.fn, Head(Top.lines), NoId, Top.qty_factor, Top.visited, 0,
                        Top.include_self_leaf, Top.product, FALSE) >>
    /\ UNCHANGED <<db, probe, current_article_id, bom_tree, order_cart, warnings, op, orders, ledger, threads>>
    /\ UNCHANGED passvars

AddTreeChildrenToCart ==
    /\ Len(calls) > 1
    /\ Top.fn = "add_tree_children_to_cart"
    /\ Effect(add_tree_children_to_cart(Top))

AddTreeFullToCart ==
    /\ Len(calls) > 1
    /\ Top.fn = "add_tree_full_to_cart"
    /\ Effect(add_tree_full_to_cart(Top))

AddArticleChildrenToCart ==
    /\ Len(calls) > 1
    /\ Top.fn = "add_article_children_to_cart"
    /\ Effect(add_article_children_to_cart(Top))

\* add_selected_bom_to_order after its last call: refresh_order_table, the
\* warnings deduplicated, the message box
ShowOrderResult ==
    /\ Len(calls) = 1
    /\ Top.lines = << >>
    /\ calls' = << >>
    /\ op' = [op EXCEPT !.state = "done", !.unique_warnings = Unique(warnings)]
    /\ UNCHANGED <<db, probe, current_article_id, bom_tree, order_cart, warnings, orders, ledger, threads>>
    /\ UNCHANGED passvars

\* Another pass of the indexer finds the BOM files of the data root gone and
\* prunes their Articles while the tree stays as it was displayed.
ArticlesPruned ==
    /\ op.state # "running"
    /\ MissingArticles(db, root) # {}
    /\ db' = remove_missing_articles(db, root)
    /\ UNCHANGED <<probe, current_article_id, bom_tree, order_cart, calls, warnings, op, orders, ledger, threads>>
    /\ UNCHANGED passvars

\* one parsed row with an item number and a quantity
OrderRow(item_no, pn, rev, qty) ==
    [Row(pn, rev, NoText, 2, TRUE) EXCEPT
        !.item_no = item_no,
        !.line_no = IF isdigit(item_no) THEN ToInt(item_no) ELSE NoLineNo,
        !.qty = qty]

\* run_index for one BOM file without lines: the Article is upserted
WithArticle(d, number, path) == upsert_article(d, number, path, 1, 1)

\* run_index, the loop over the lines: the part is upserted, the line inserted
WithLine(d, number, line) ==
    LET d1 == upsert_part(d, Upper(line.part_number), line.description)
    IN insert_bom_line(d1, article_id_of(d1, number),
                       part_id_of(d1, Upper(line.part_number)), line, 1)

RECURSIVE WithLines(_, _, _)
WithLines(d, number, lines) ==
    IF lines = << >> THEN d
    ELSE WithLines(WithLine(d, number, Head(lines)), number, Tail(lines))

art100 == <<"1","0","0">>

art200 == <<"2","0","0">>

art300 == <<"3","0","0">>

\* Articles 100 and 200 refer to each other; 100 names 200 on two lines, 200
\* lists a component under its line for 100 (item 2.1). The BOM file of 200
\* lies in the data root, the one of 100 outside it.
dbCycle ==
    LET d1 == WithArticle(WithArticle(start_import_run(EmptyDb), art100, bomD), art200, bomC)
        d2 == WithLines(d1, art100,
                << OrderRow(<<"1">>, art200, NoText, 3),
                   OrderRow(<<"2">>, pn407, <<"a">>, NoQty),
                   OrderRow(<<"3">>, art200, NoText, 1) >>)
    IN WithLines(d2, art200,
                << OrderRow(<<"1">>, pn503, <<"b">>, 1),
                   OrderRow(<<"2">>, art100, NoText, 1),
                   OrderRow(<<"2",".","1">>, pn407, NoText, 1) >>)

\* Article 100 names itself on its first line and lists a part beside it.
dbSelf ==
    WithLines(WithArticle(start_import_run(EmptyDb), art100, bomD), art100,
              << OrderRow(<<"1">>, art100, NoText, 2),
                 OrderRow(<<"2">>, pn503, NoText, 1) >>)

\* Article 100 lists sub-assembly 200 together with a component under it
\* (item 1.1), a part with quantity 0 and sub-assembly 300, whose BOM gave no
\* lines; two lines of 200 differ only in where the "|" stands.
dbNested ==
    LET d1 == WithArticle(WithArticle(WithArticle(start_import_run(EmptyDb),
                  art100, bomD), art200, bomC), art300, bomD)
        d2 == WithLines(d1, art100,
                << OrderRow(<<"1">>, art200, NoText, 2),
                   OrderRow(<<"1",".","1">>, pn503, NoText, 1),
                   OrderRow(<<"2">>, pn407, <<"A">>, 0),
                   OrderRow(<<"3">>, art300, NoText, 1) >>)
    IN WithLines(d2, art200,
                << OrderRow(<<"1">>, pn407, <<"A">>, 5),
                   OrderRow(<<"7">>, <<"8","|","9">>, NoText, 1),
                   OrderRow(<<"7","|","8">>, <<"9">>, NoText, 1) >>)

\* The tables after a first pass over BOM files that hold the given rows:
\* files[k] is [number, path, rows]; ids are given in the order of the
\* inserts, a part gets its id where its number is first met. (What
\* WithArticle and WithLines give file by file, as one expression.)
Indexed(files) ==
    LET at == { a \in (DOMAIN files) \X (1..(MaxDepth + 3)) : a[2] <= Len(files[a[1]].rows) }
        before(a, b) == a[1] < b[1] \/ (a[1] = b[1] /\ a[2] < b[2])
        row(a) == files[a[1]].rows[a[2]]
        number(a) == Upper(row(a).part_number)
        firsts == { a \in at : \A b \in at : before(b, a) => number(b) # number(a) }
        part_id(a) == Cardinality({ b \in firsts : before(b, a) \/ b = a })
        first_of(a) == CHOOSE b \in firsts : number(b) = number(a)
    IN [EmptyDb EXCEPT
          !.import_runs = start_import_run(EmptyDb).import_runs,
          !.articles = { with_source_stat([id |-> k, article_number |-> files[k].number,
                                           source_bom_path |-> files[k].path], 1, 1)
                         : k \in DOMAIN files },
          !.seq_articles = Len(files),
          !.parts = { [id |-> part_id(a), part_number |-> number(a),
                       description |-> row(a).description] : a \in firsts },
          !.seq_parts = Cardinality(firsts),
          !.bom_lines = { with_item_no([id |-> Cardinality({ b \in at : before(b, a) }) + 1,
                              article_id |-> a[1], part_id |-> part_id(first_of(a)),
                              line_no |-> row(a).line_no,
                              qty |-> row(a).qty, revision |-> row(a).revision,
                              description |-> row(a).description,
                              source_row_number |-> row(a).source_row_number,
                              import_run_id |-> 1], row(a).item_no) : a \in at },
          !.seq_bom_lines = Cardinality(at)]

\* Articles 1000, 1001, ..., 1000 + MaxDepth + 1: each names the next one on
\* its first line and a part on its second
ChainNumber(k) == ToStr(1000 + k)

dbChain ==
    Indexed([k \in 1..(MaxDepth + 2) |->
               [number |-> ChainNumber(k - 1), path |-> bomD,
                rows |-> << OrderRow(<<"1">>, ChainNumber(k), NoText, 1),
                            OrderRow(<<"2">>, pn503, NoText, 1) >>]])

\* the item number 1.1. ... .1 of n tokens
Dotted(n) == [i \in 1..(2 * n - 1) |-> IF i % 2 = 1 THEN "1" ELSE "."]

\* Article 300 with one line on each of MaxDepth + 2 levels below each other
\* and one part beside them
dbDeep ==
    Indexed(<< [number |-> art300, path |-> bomD,
                rows |-> [k \in 1..(MaxDepth + 2) |-> OrderRow(Dotted(k), pn407, NoText, 1)]
                         \o << OrderRow(<<"2">>, pn503, NoText, 2) >>] >>)

OrderDbs == {dbCycle, dbNested, dbChain, dbDeep, dbSelf}

\* the indexer has finished and committed; nothing is displayed
OrderInit ==
    /\ root = "R1" /\ bomDisk = [f \in BomUniverse |-> 0] /\ docDisk = [f \in DocUniverse |-> 0]
    /\ pc = "idle" /\ ix = NoFrame /\ dx = NoDocFrame /\ runs = 0 /\ edited = FALSE /\ hist = NoHist
    /\ db \in OrderDbs
    /\ committed = db
    /\ UiIdle

OrderNext ==
    \/ \E article_id \in ArticleIds : DisplayArticle(article_id)
    \/ \E current \in 0..MaxPosition, mode \in Modes, multiplier \in Multipliers :
          AddSelectedBomToOrder(current, mode, multiplier)
    \/ CallTreeRoutine
    \/ AddTreeChildrenToCart
    \/ AddTreeFullToCart
    \/ AddArticleChildrenToCart
    \/ ShowOrderResult
    \/ ArticlesPruned

OrderSpec == OrderInit /\ [][OrderNext]_vars

\* While an explosion runs only its own steps are possible, and one always is
ExplosionCanStep ==
    op.state = "running" =>
        /\ calls # << >>
        /\ Len(calls) > 1 =>
              Top.fn \in {"add_tree_children_to_cart", "add_tree_full_to_cart",
                          "add_article_children_to_cart"}

\* The explosion is one synchronous call: once started it is not left
\* standing, its next step is taken. (Weak fairness of the explosion steps,
\* written with the condition ExplosionCanStep gives for their enabling.)
OrderFairSpec ==
    OrderSpec /\ ([]<>(op.state # "running") \/ []<><<op.state = "running">>_vars)

\* ------------------------------------------------------------------------
\* get_article_bom_lines and display_article_by_id on their own: lines are
\* stored one by one under Article 100 and the Article is displayed
\* ------------------------------------------------------------------------

\* BOM lines ever stored in one behaviour
MaxTreeLines == 3

art407 == <<"4","0","7">>

\* a part number with two runs of digits, "A100-0200"
pnTwoRuns == <<"A","1","0","0","-","0","2","0","0">>

\* a stored line with its item number and line number
TreeLine(item_no, line_no, pn) ==
    [Row(pn, NoText, NoText, 2, TRUE) EXCEPT !.item_no = item_no, !.line_no = line_no]

\* the lines that can be stored: item numbers on three levels, two lines
\* with a line number only, two lines with neither
TreeLines ==
    { TreeLine(<<"4">>, 4, pnTwoRuns),
      TreeLine(<<"4",".","2">>, NoLineNo, pn503),
      TreeLine(<<"4",".","1","0">>, NoLineNo, pn503),
      TreeLine(<<"4",".","3","2">>, NoLineNo, art200),
      TreeLine(<<"4",".","3","2",".","1">>, NoLineNo, pn503),
      TreeLine(<<"4",".","3","2",".","2">>, NoLineNo, pn407),
      TreeLine(NoText, 7, pn407),
      TreeLine(NoText, 3, pn503),
      TreeLine(NoText, NoLineNo, pn503),
      TreeLine(NoText, NoLineNo, pn407) }

\* the Articles indexed before: 100 alone, with 200, with 200 and 407
TreeDbs ==
    LET d1 == WithArticle(start_import_run(EmptyDb), art100, bomA)
        d2 == WithArticle(d1, art200, bomC)
    IN { d1, d2, WithArticle(d2, art407, bomD) }

TreeInit ==
    /\ root = "R1" /\ bomDisk = [f \in BomUniverse |-> 0] /\ docDisk = [f \in DocUniverse |-> 0]
    /\ pc = "idle" /\ ix = NoFrame /\ dx = NoDocFrame /\ runs = 0 /\ edited = FALSE /\ hist = NoHist
    /\ db \in TreeDbs
    /\ committed = db
    /\ UiIdle

\* upsert_part and insert_bom_line for one line of Article 100; the tree on
\* display stays as it is
StoreLine(line) ==
    /\ db.seq_bom_lines < MaxTreeLines
    /\ db' = WithLine(db, art100, line)
    /\ UNCHANGED passvars /\ UNCHANGED uivars

TreeNext ==
    \/ \E line \in TreeLines : StoreLine(line)
    \/ \E article_id \in ArticleIds : DisplayArticle(article_id)

TreeSpec == TreeInit /\ [][TreeNext]_vars

\* ------------------------------------------------------------------------
\* index_documents on one discovered file: the parts table is filled part
\* by part and a document is matched and stored
\* ------------------------------------------------------------------------

\* parts, BOM lines and documents stored in one behaviour
MaxLinkParts == 3

MaxLinkLines == 2

MaxLinkDocs == 1

pnAB == <<"A","B","1","2","3","4">>

pnKlem == <<"K","L","E","M">>

pnBout == <<"B","O","U","T">>

descMounting == <<"M","o","u","n","t","i","n","g"," ","p","l","a","t","e">>

\* the parts of the table: a numbered part with a short description, a
\* part the regex recognises with a description of two tokens, two parts
\* whose numbers are words of the same length
LinkParts ==
    { [part_number |-> pn407, description |-> descBracket],
      [part_number |-> pnAB, description |-> descMounting],
      [part_number |-> pnKlem, description |-> NoText],
      [part_number |-> pnBout, description |-> NoText] }

\* the file names discovered
LinkNames ==
    { <<"1","5","-","0","0","4","0","7",".","p","d","f">>,
      <<"1","5","-","0","0","4","0","7","_","C",".","p","d","f">>,
      <<"A","B","1","2","3","4"," ","1","5","-","0","0","4","0","7","_","C",".","p","d","f">>,
      <<"k","l","e","m",".","p","d","f">>,
      <<"k","l","e","m"," ","b","o","u","t",".","p","d","f">>,
      <<"k","l","e","m"," ","m","o","u","n","t","i","n","g"," ","p","l","a","t","e",".","p","d","f">>,
      <<"m","o","u","n","t","i","n","g"," ","p","l","a","t","e",".","p","d","f">>,
      <<"p","l","a","t","e"," ","m","o","u","n","t","i","n","g",".","p","d","f">>,
      <<"m","a","n","u","a","l",".","p","d","f">> }

LinkRevisions == { <<"b">>, <<"C">> }

LinkPath(name) == Path("R1", "PDF", name)

LinkInit ==
    /\ PassIdle
    /\ db = EmptyDb
    /\ UiIdle

\* upsert_part for a part the table does not hold yet
StorePart(part) ==
    /\ db.seq_parts < MaxLinkParts
    /\ PartByNumber(db, part.part_number) = {}
    /\ db' = upsert_part(db, part.part_number, part.description)
    /\ probe' = NoProbe
    /\ UNCHANGED passvars /\ UNCHANGED ordervars

\* insert_bom_line: a line of part 15-00407 with a revision
StoreRevision(rev) ==
    /\ db.seq_bom_lines < MaxLinkLines
    /\ PartByNumber(db, pn407) # {}
    /\ db' = insert_bom_line(db, NoId, part_id_of(db, pn407),
                             Row(pn407, rev, NoText, db.seq_bom_lines + 2, TRUE), NoId)
    /\ probe' = NoProbe
    /\ UNCHANGED passvars /\ UNCHANGED ordervars

\* lines 185-222 of index_documents for one new file: the parts cache is
\* loaded, the link is decided and the document row is stored
LinkDoc(name) ==
    /\ db.seq_documents < MaxLinkDocs
    /\ db' = StoreLink(db, LinkPath(name), DocVersion(1, 1), NoId,
                       match_document(db, name, load_parts_cache(db)))
    /\ probe' = [filename |-> name, result |-> "stored"]
    /\ UNCHANGED passvars /\ UNCHANGED ordervars

LinkNext ==
    \/ \E part \in LinkParts : StorePart(part)
    \/ \E rev \in LinkRevisions : StoreRevision(rev)
    \/ \E name \in LinkNames : LinkDoc(name)

LinkSpec == LinkInit /\ [][LinkNext]_vars

\* ------------------------------------------------------------------------
\* ui.py: the callers of run_index. run_ui and run_reindex_with_progress
\* start run_index on a daemon thread and wait in a modal dialog that a
\* timer closes once the worker has set its done flag; save_bom_edits calls
\* run_index on the UI thread.
\* ------------------------------------------------------------------------

\* background workers started and BOM edits saved in one behaviour
MaxWorkers == 3

MaxSaves == 2

\* the worker the dialog waits for: the one started last
Waited == threads.workers[Len(threads.workers)]

\* worker.start(), poll_timer.start(), dialog.exec(): the caller is inside
\* the event loop of the dialog
StartWorker(dialog) ==
    threads' = [threads EXCEPT !.workers = Append(@, "running"), !.caller = dialog]

ReindexInit ==
    /\ PassIdle
    /\ db = EmptyDb
    /\ UiIdle

\* run_ui, lines 2263-2311: the startup pass
RunUi ==
    /\ threads.caller = "run_ui"
    /\ StartWorker("startup_dialog")
    /\ UNCHANGED <<db, probe, current_article_id, bom_tree, order_cart, calls, warnings, op, orders, ledger>>
    /\ UNCHANGED passvars

\* run_reindex_with_progress, lines 1121-1174: a re-index the user requests
\* from the main window
RunReindexWithProgress ==
    /\ threads.caller = "main_window"
    /\ Len(threads.workers) < MaxWorkers
    /\ StartWorker("progress_dialog")
    /\ UNCHANGED <<db, probe, current_article_id, bom_tree, order_cart, calls, warnings, op, orders, ledger>>
    /\ UNCHANGED passvars

\* _index_in_background: run_index returns its statistics or raises, the
\* connection is closed and the done flag is set
IndexInBackground(k, outcome) ==
    /\ k \in DOMAIN threads.workers
    /\ threads.workers[k] = "running"
    /\ threads' = [threads EXCEPT !.workers[k] = outcome]
    /\ UNCHANGED <<db, probe, current_article_id, bom_tree, order_cart, calls, warnings, op, orders, ledger>>
    /\ UNCHANGED passvars

\* where the caller stands after dialog.exec() has returned
AfterExec(caller) == IF caller = "startup_dialog" THEN "startup_join" ELSE "progress_join"

\* _poll / _poll_status: the done flag is set, the timer stops and the
\* dialog is accepted or rejected; exec() returns
Poll ==
    /\ threads.caller \in {"startup_dialog", "progress_dialog"}
    /\ Waited # "running"
    /\ threads' = [threads EXCEPT !.caller = AfterExec(@)]
    /\ UNCHANGED <<db, probe, current_article_id, bom_tree, order_cart, calls, warnings, op, orders, ledger>>
    /\ UNCHANGED passvars

\* dialog.exec() returns because the user dismisses the dialog: a QDialog
\* without a reject() override is rejected by the Escape key
Dismiss ==
    /\ threads.caller \in {"startup_dialog", "progress_dialog"}
    /\ threads' = [threads EXCEPT !.caller = AfterExec(@)]
    /\ UNCHANGED <<db, probe, current_article_id, bom_tree, order_cart, calls, warnings, op, orders, ledger>>
    /\ UNCHANGED passvars

\* worker.join(timeout=10.0) returns: the worker has ended, or ten seconds
\* have passed; the main window has control
Join ==
    /\ threads.caller \in {"startup_join", "progress_join"}
    /\ threads' = [threads EXCEPT !.caller = "main_window",
                                  !.timeouts = IF Waited = "running" THEN @ + 1 ELSE @]
    /\ UNCHANGED <<db, probe, current_article_id, bom_tree, order_cart, calls, warnings, op, orders, ledger>>
    /\ UNCHANGED passvars

\* save_bom_edits, line 1843: run_index is called on the UI thread
SaveBomEdits ==
    /\ threads.caller = "main_window"
    /\ threads.saves < MaxSaves
    /\ threads' = [threads EXCEPT !.caller = "save_bom_edits", !.saves = @ + 1]
    /\ UNCHANGED <<db, probe, current_article_id, bom_tree, order_cart, calls, warnings, op, orders, ledger>>
    /\ UNCHANGED passvars

\* that call of run_index returns
SaveBomEditsIndexed ==
    /\ threads.caller = "save_bom_edits"
    /\ threads' = [threads EXCEPT !.caller = "main_window"]
    /\ UNCHANGED <<db, probe, current_article_id, bom_tree, order_cart, calls, warnings, op, orders, ledger>>
    /\ UNCHANGED passvars

ReindexNext ==
    \/ RunUi
    \/ RunReindexWithProgress
    \/ \E k \in 1..MaxWorkers, outcome \in {"stats", "error"} : IndexInBackground(k, outcome)
    \/ Poll
    \/ Dismiss
    \/ Join
    \/ SaveBomEdits
    \/ SaveBomEditsIndexed

ReindexSpec == ReindexInit /\ [][ReindexNext]_vars

\* ------------------------------------------------------------------------
\* mapping.py and excel_parser.py: a sheet as rows of cells, its header row
\* and the lines read below it
\* ------------------------------------------------------------------------

\* a cell value: None, a str, or a number
NoCell == [kind |-> "none", text |-> NoText, number |-> 0]

Str(text) == [kind |-> "str", text |-> text, number |-> 0]

Num(n) == [kind |-> "num", text |-> NoText, number |-> n]

\* str(value)
CellText(cell) ==
    IF cell.kind = "none" THEN <<"N","o","n","e">>
    ELSE IF cell.kind = "num" THEN ToStr(cell.number)
    ELSE cell.text

\* str.strip()
strip(s) ==
    LET keep == { i \in DOMAIN s : ~IsSpace(s[i]) }
    IN IF keep = {} THEN << >> ELSE SubSeq(s, Leftmost(keep), Greatest(keep))

\* CANONICAL_FIELDS, in the order of the dict
CANONICAL_FIELDS ==
    << [name |-> "part_number", text |-> <<"p","a","r","t","_","n","u","m","b","e","r">>,
        synonyms |-> { <<"p","a","r","t","n","o">>, <<"p","a","r","t","n","u","m","b","e","r">>, <<"p","n">>, <<"i","t","e","m","c","o","d","e">>, <<"o","n","d","e","r","d","e","e","l","n","u","m","m","e","r">>, <<"a","r","t","i","k","e","l">> }],
       [name |-> "description", text |-> <<"d","e","s","c","r","i","p","t","i","o","n">>,
        synonyms |-> { <<"d","e","s","c","r","i","p","t","i","o","n">>, <<"d","e","s","c">>, <<"o","m","s","c","h","r","i","j","v","i","n","g">> }],
       [name |-> "qty", text |-> <<"q","t","y">>,
        synonyms |-> { <<"q","t","y">>, <<"q","u","a","n","t","i","t","y">>, <<"a","a","n","t","a","l">>, <<"s","t","u","k","s">> }],
       [name |-> "revision", text |-> <<"r","e","v","i","s","i","o","n">>,
        synonyms |-> { <<"r","e","v">>, <<"r","e","v","i","s","i","o","n">>, <<"v","e","r","s","i","e">> }],
       [name |-> "material", text |-> <<"m","a","t","e","r","i","a","l">>,
        synonyms |-> { <<"m","a","t","e","r","i","a","l">>, <<"m","a","t","e","r","i","a","a","l">> }],
       [name |-> "finish", text |-> <<"f","i","n","i","s","h">>,
        synonyms |-> { <<"f","i","n","i","s","h">>, <<"a","f","w","e","r","k","i","n","g">> }],
       [name |-> "line_type", text |-> <<"l","i","n","e","_","t","y","p","e">>,
        synonyms |-> { <<"t","y","p","e">>, <<"p","a","r","t","t","y","p","e">>, <<"c","o","m","p","o","n","e","n","t","t","y","p","e">> }],
       [name |-> "status", text |-> <<"s","t","a","t","u","s">>,
        synonyms |-> { <<"s","t","a","t","u","s">>, <<"a","p","p","r","o","v","a","l","s","t","a","t","u","s">>, <<"s","t","a","t","e">> }],
       [name |-> "unit", text |-> <<"u","n","i","t">>,
        synonyms |-> { <<"u","o","m">>, <<"u","n","i","t">>, <<"e","e","n","h","e","i","d">> }],
       [name |-> "line_no", text |-> <<"l","i","n","e","_","n","o">>,
        synonyms |-> { <<"i","t","e","m">>, <<"i","t","e","m","n","o">>, <<"l","i","n","e">>, <<"r","e","g","e","l">>, <<"p","o","s">>, <<"p","o","s","i","t","i","o","n">> }] >>

\* normalize_header: stripped, lower case, only [a-z0-9] kept
normalize_header(value) ==
    Filter(casefold(strip(value)), Range(LowerSeq) \cup Range(DigitSeq))

\* the canonical fields a normalised header names
FieldsOf(norm) ==
    { k \in DOMAIN CANONICAL_FIELDS :
        norm = CANONICAL_FIELDS[k].text \/ norm \in CANONICAL_FIELDS[k].synonyms }

\* map_headers: column index -> canonical field, for the recognised columns
map_headers(headers) ==
    [idx \in { i \in DOMAIN headers :
                /\ normalize_header(CellText(headers[i])) # << >>
                /\ FieldsOf(normalize_header(CellText(headers[i]))) # {} }
        |-> CANONICAL_FIELDS[Leftmost(FieldsOf(normalize_header(CellText(headers[idx]))))].name]

\* mapping.values()
MappedFields(mapping) == { mapping[idx] : idx \in DOMAIN mapping }

\* max_scan of detect_header
max_scan == 30

\* the loop of detect_header with a row of the same score replacing the
\* best one
RECURSIVE ScanLastHeader(_, _, _)
ScanLastHeader(rows, idx, best) ==
    IF idx > Len(rows) \/ idx > max_scan THEN best
    ELSE LET mapping == map_headers(rows[idx])
             score == Cardinality(DOMAIN mapping)
         IN ScanLastHeader(rows, idx + 1,
                IF score >= best.score /\ "part_number" \in MappedFields(mapping)
                THEN [index |-> idx, map |-> mapping, score |-> score]
                ELSE best)

\* the loop of detect_header from row idx on; best is (best_index, best_map,
\* best_score), index 0 standing for None
RECURSIVE ScanHeader(_, _, _)
ScanHeader(rows, idx, best) ==
    IF idx > Len(rows) \/ idx > max_scan THEN best
    ELSE LET mapping == map_headers(rows[idx])
             score == Cardinality(DOMAIN mapping)
         IN ScanHeader(rows, idx + 1,
                IF score > best.score /\ "part_number" \in MappedFields(mapping)
                THEN [index |-> idx, map |-> mapping, score |-> score]
                ELSE best)

\* detect_header
detect_header(rows) == ScanHeader(rows, 1, [index |-> 0, map |-> << >>, score |-> -1])

\* read_cell: the cell of the first column mapped to the field that the row
\* reaches, None for a blank string
read_cell(row, mapping, field) ==
    LET cols == { idx \in DOMAIN mapping : mapping[idx] = field /\ idx <= Len(row) }
    IN IF cols = {} THEN NoCell
       ELSE IF row[Leftmost(cols)].kind = "str" /\ strip(row[Leftmost(cols)].text) = << >>
       THEN NoCell
       ELSE row[Leftmost(cols)]

\* to_text
to_text(cell) == IF cell.kind = "none" THEN NoText ELSE strip(CellText(cell))

\* parse_qty, for whole numbers
parse_qty(cell) ==
    IF cell.kind = "none" THEN NoQty
    ELSE IF cell.kind = "num" THEN cell.number
    ELSE IF isdigit(strip(cell.text)) THEN ToInt(strip(cell.text))
    ELSE NoQty

\* ParsedLine(...) of parse_sheet_rows for the row with (1-based) number
\* row_number
ParsedLine(row, header_map, row_number) ==
    [part_number |-> strip(CellText(read_cell(row, header_map, "part_number"))),
     description |-> to_text(read_cell(row, header_map, "description")),
     qty |-> parse_qty(read_cell(row, header_map, "qty")),
     revision |-> to_text(read_cell(row, header_map, "revision")),
     source_row_number |-> row_number]

\* parse_sheet_rows on the cells of a sheet: the lines of the rows below
\* the header row that have a part number
ParseSheet(rows) ==
    LET header == detect_header(rows)
        data == { i \in DOMAIN rows :
                    /\ i > header.index
                    /\ read_cell(rows[i], header.map, "part_number").kind # "none" }
        nth(k) == CHOOSE i \in data : Cardinality({ j \in data : j < i }) = k - 1
    IN IF header.index = 0 \/ "part_number" \notin MappedFields(header.map) THEN << >>
       ELSE [k \in 1..Cardinality(data) |-> ParsedLine(rows[nth(k)], header.map, nth(k))]

\* the rows a sheet is made of in one behaviour, beside blank rows
MaxSheetRows == 3

\* rows above the first row of the sheet that hold no value
BlankRowsAbove == 29

\* header rows with two columns of one field, with one recognised column,
\* without a part number column; data rows with both cells of a doubled
\* column filled, with the first one blank, with the first one empty, and
\* a row that ends after its first cell
SheetRowUniverse ==
    { <<Str(<<"P","a","r","t"," ","N","o">>), Str(<<"Q","t","y">>), Str(<<"A","a","n","t","a","l">>)>>,
      <<Str(<<"P","N">>), Str(<<"A","r","t","i","k","e","l">>), Str(<<"Q","t","y">>)>>,
      <<Str(<<"P","a","r","t"," ","N","o">>), Str(<<"R","e","m","a","r","k">>), Str(<< >>)>>,
      <<Str(<<"Q","t","y">>), Str(<<"D","e","s","c","r","i","p","t","i","o","n">>), Str(<<"x">>)>>,
      <<Str(<<"1","5","-","0","0","4","0","7">>), Num(2), Num(5)>>,
      <<Str(<<"1","5","-","0","0","5","0","3">>), Str(<<" ">>), Num(3)>>,
      <<NoCell, Str(<<"1","5","-","0","0","5","0","3">>), Num(1)>>,
      <<Str(<<"1","5","-","0","0","4","0","7">>)>> }

\* the rows of the sheet under test
SheetRows == IF "rows" \in DOMAIN probe THEN probe.rows ELSE << >>

SheetInit ==
    /\ PassIdle
    /\ db = EmptyDb
    /\ UiIdle

\* iter_sheet_rows yields one more row
AppendRow(row) ==
    /\ Cardinality({ i \in DOMAIN SheetRows : SheetRows[i] # <<NoCell, NoCell, NoCell>> }) < MaxSheetRows
    /\ probe' = [rows |-> Append(SheetRows, row), parsed |-> FALSE, header_idx |-> 0,
                 result |-> << >>]
    /\ UNCHANGED db
    /\ UNCHANGED passvars /\ UNCHANGED ordervars

\* the sheet starts with rows that hold no value
InsertBlankRows ==
    /\ Len(SheetRows) <= MaxSheetRows
    /\ probe' = [rows |-> [i \in 1..BlankRowsAbove |-> <<NoCell, NoCell, NoCell>>] \o SheetRows,
                 parsed |-> FALSE, header_idx |-> 0, result |-> << >>]
    /\ UNCHANGED db
    /\ UNCHANGED passvars /\ UNCHANGED ordervars

\* parse_sheet_rows(sheet_name, rows)
ParseSheetRows ==
    /\ SheetRows # << >>
    /\ probe' = [rows |-> SheetRows, parsed |-> TRUE,
                 header_idx |-> detect_header(SheetRows).index,
                 result |-> ParseSheet(SheetRows)]
    /\ UNCHANGED db
    /\ UNCHANGED passvars /\ UNCHANGED ordervars

SheetNext ==
    \/ \E row \in SheetRowUniverse : AppendRow(row)
    \/ InsertBlankRows
    \/ ParseSheetRows

SheetSpec == SheetInit /\ [][SheetNext]_vars

\* ------------------------------------------------------------------------
\* The part_type column of parts (db.py of github_upload/adm_app)
\* ------------------------------------------------------------------------

\* VALID_PART_TYPES
VALID_PART_TYPES ==
    { <<"m","e","c","h","a","n","i","c","a","l">>,
      <<"f","a","s","t","e","n","e","r">>,
      <<"p","a","c","k","a","g","i","n","g">>,
      <<"l","a","b","e","l">>,
      <<"d","o","c","u","m","e","n","t","a","t","i","o","n">>,
      <<"s","e","r","v","i","c","e">>,
      <<"o","t","h","e","r">> }

\* str.lower()
lower(s) == [i \in DOMAIN s |-> LowerChar(s[i])]

\* normalized of update_part_type: None for None and "", else the value
\* stripped and in lower case
normalized_part_type(part_type) ==
    IF part_type.kind = "none" \/ part_type.text = << >> THEN NoCell
    ELSE Str(lower(strip(part_type.text)))

\* a check that lets every value through
NeverInvalid(normalized) == FALSE

\* the condition of update_part_type under which it raises ValueError
InvalidPartType(normalized) ==
    normalized # NoCell /\ normalized.text \notin VALID_PART_TYPES

\* the parts whose part_type one behaviour sets
MaxTypedParts == 2

\* the values update_part_type is called with: None, "", blanks, values of
\* the enum in lower, upper and mixed case and between blanks, other texts
PartTypeInputs ==
    { NoCell, Str(<< >>), Str(<<" ">>),
      Str(<<"f","a","s","t","e","n","e","r">>), Str(<<"o","t","h","e","r">>), Str(<<"l","a","b","e","l">>),
      Str(<<"p","a","c","k","a","g","i","n","g">>), Str(<<"F","a","s","t","e","n","e","r">>), Str(<<"M","E","C","H","A","N","I","C","A","L">>),
      Str(<<" ","O","T","H","E","R"," ">>), Str(<<"i","n","v","a","l","i","d","_","t","y","p","e">>) }

\* no call of update_part_type was made since the last change of parts
NoTypeCall == [made |-> FALSE, part_id |-> NoId, part_type |-> NoCell, raised |-> FALSE]

\* the part_type column: part id -> value, NoCell for NULL
PartTypeColumn == IF "column" \in DOMAIN probe THEN probe.column ELSE << >>

PartTypeInit ==
    /\ PassIdle
    /\ db = EmptyDb
    /\ UiIdle

\* upsert_part: a new part has part_type NULL, a known part keeps its
\* part_type
UpsertPart(number, description) ==
    /\ PartByNumber(db, number) = {} => db.seq_parts < MaxTypedParts
    /\ db' = upsert_part(db, number, description)
    /\ probe' = [column |-> [id \in 1..db'.seq_parts |->
                                IF id \in DOMAIN PartTypeColumn THEN PartTypeColumn[id]
                                ELSE NoCell],
                 call |-> NoTypeCall]
    /\ UNCHANGED passvars /\ UNCHANGED ordervars

\* update_part_type(conn, part_id, part_type)
update_part_type(part_id, part_type) ==
    /\ "column" \in DOMAIN probe
    /\ IF InvalidPartType(normalized_part_type(part_type))
       THEN probe' = [column |-> probe.column,
                      call |-> [made |-> TRUE, part_id |-> part_id, part_type |-> part_type,
                                raised |-> TRUE]]
       ELSE probe' = [column |-> [id \in DOMAIN probe.column |->
                                    IF id = part_id THEN normalized_part_type(part_type)
                                    ELSE probe.column[id]],
                      call |-> [made |-> TRUE, part_id |-> part_id, part_type |-> part_type,
                                raised |-> FALSE]]
    /\ UNCHANGED db
    /\ UNCHANGED passvars /\ UNCHANGED ordervars

PartTypeNext ==
    \/ \E number \in {pn407, pn503} : UpsertPart(number, descBracket)
    \/ \E part_id \in 1..(MaxTypedParts + 1) : \E part_type \in PartTypeInputs :
          update_part_type(part_id, part_type)

PartTypeSpec == PartTypeInit /\ [][PartTypeNext]_vars

\* ------------------------------------------------------------------------
\* Properties
\* ------------------------------------------------------------------------

\* the article number run_index files the rows of a BOM file under
FileArticle(f) == extract_article_from_filename(f.name)

\* the BOM lines stored for the article of a number
LinesOfArticle(d, number) ==
    { l \in d.bom_lines : \E a \in ArticleByNumber(d, number) : l.article_id = a.id }

\* run_index is between its first and its last statement
InPass == pc \in {"boms", "lines", "docs", "finish"}

\* the BOM files whose processing failed in this pass
FailedFiles == { f \in BomUniverse : hist.outcome[f] = "failed" }

\* f alone stands for its article: the article, if stored before the pass,
\* names f as its source, and no other file of the pass was filed under it
OnlyFileOfItsArticle(f) ==
    /\ \A a \in ArticleByNumber(hist.before, FileArticle(f)) : a.source_bom_path = f
    /\ \A g \in BomUniverse \ {f} :
          FileArticle(g) = FileArticle(f) => hist.outcome[g] \in {"none", "skipped"}

\* C1: when the processing of a changed BOM file raises at any point of the
\* per-file step, the BOM lines stored for its article after the pass are
\* exactly the ones stored before the pass.
C1_failed_file_keeps_previous_lines ==
    (pc \in {"docs", "finish"} \/ (pc = "idle" /\ hist.ended = "returned")) =>
      \A f \in FailedFiles :
        OnlyFileOfItsArticle(f) =>
          LinesOfArticle(db, FileArticle(f))
            = LinesOfArticle(hist.before, FileArticle(f))

\* the article rows, as read at the start of the pass, that name f as source
RecordedFor(f) == { a \in hist.before.articles : a.source_bom_path = f }

\* f has the size and the mtime recorded on its article
SameAsRecorded(f) ==
    \E a \in RecordedFor(f) : /\ a.source_bom_modified_at = BomStat(f).mtime
                               /\ a.source_bom_size_bytes = BomStat(f).size

\* C2: within a pass a BOM file with the size and mtime recorded on its article
\* causes no insert and no delete, and a file whose path is no article's source,
\* or whose size or mtime differs from the recorded one, is not skipped.
C2_skipped_exactly_when_unchanged ==
    InPass =>
      \A f \in BomUniverse :
        hist.outcome[f] # "none" =>
          IF SameAsRecorded(f)
          THEN hist.inserts[f] = 0 /\ hist.deletes[f] = 0
          ELSE hist.outcome[f] # "skipped"

\* the rows of a set of BOM lines in the order of their insertion
RECURSIVE InsertionOrder(_)
InsertionOrder(S) ==
    IF S = {} THEN << >>
    ELSE LET first == CHOOSE l \in S : \A m \in S : l.id <= m.id
         IN <<first>> \o InsertionOrder(S \ {first})

\* what a stored BOM line holds of the row it was read from
StoredRow(d, l) ==
    [part_number |-> (CHOOSE q \in d.parts : q.id = l.part_id).part_number,
     revision |-> l.revision, description |-> l.description,
     source_row_number |-> l.source_row_number]

StoredRows(d, article_id) ==
    LET rows == InsertionOrder({ l \in d.bom_lines : l.article_id = article_id })
    IN [i \in DOMAIN rows |-> StoredRow(d, rows[i])]

\* what run_index stores of the rows of a parse
ParsedRows(lines) ==
    LET kept == SelectSeq(lines, LAMBDA line : line.part_number # << >>)
    IN [i \in DOMAIN kept |->
          [part_number |-> Upper(kept[i].part_number), revision |-> kept[i].revision,
           description |-> kept[i].description,
           source_row_number |-> kept[i].source_row_number]]

\* C3: whenever a pass has returned, the stored BOM lines of every article are
\* the rows of the latest parse of its source file, each once and none from an
\* earlier parse.
C3_lines_equal_latest_parse ==
    (pc = "idle" /\ hist.ended # "raised") =>
      \A a \in db.articles :
        StoredRows(db, a.id) = ParsedRows(hist.latest[a.source_bom_path])

\* C4: a document matched while the exact step finds revision_mismatch or
\* ambiguous_revision_required for its part is stored unlinked with that reason.
C4_revision_conflict_stays_unlinked ==
    [][\A f \in DocUniverse :
          (hist.doc_outcome[f] # "matched" /\ hist'.doc_outcome[f] = "matched")
          => LET exact == find_part_match_with_revision(db, f.name)
             IN exact.link_reason \in {"revision_mismatch",
                                       "ambiguous_revision_required"}
                => \A x \in DocumentByPath(db', f) :
                      /\ x.linked_to_type = None
                      /\ x.linked_id = NoId
                      /\ x.link_reason = exact.link_reason]_vars

Ids(rows) == { x.id : x \in rows }

\* the articles whose source lies inside the BOM root of r and is gone
StaleArticles(d, r) ==
    { a \in d.articles : /\ a.source_bom_path.root = r
                         /\ a.source_bom_path.folder = "BOMS"
                         /\ bomDisk[a.source_bom_path] = 0 }

\* C5: the pruning step deletes exactly the articles whose source lies inside
\* the BOM root and no longer exists, with their BOM lines and the documents
\* linked to them; the other articles, their lines, the parts and the other
\* documents stay as they are, and no other step of a pass deletes an article.
C5_prune_exactly_stale_articles ==
    [][IF pc = "boms" /\ pc' = "docs"
       THEN LET gone == Ids(StaleArticles(db, root))
            IN /\ db'.articles = { a \in db.articles : a.id \notin gone }
               /\ db'.bom_lines = { l \in db.bom_lines : l.article_id \notin gone }
               /\ db'.documents = { x \in db.documents :
                                      ~(x.linked_to_type = "article"
                                        /\ x.linked_id \in gone) }
               /\ db'.parts = db.parts
       ELSE pc' # "abandoned" => Ids(db.articles) \subseteq Ids(db'.articles)]_vars

\* an article of the start of the pass is pruned together with its lines and
\* with a document linked to it
C5_witness ==
    /\ pc = "docs"
    /\ \E a \in hist.before.articles :
          /\ a.id \notin Ids(db.articles)
          /\ \E l \in hist.before.bom_lines : l.article_id = a.id
          /\ \E x \in hist.before.documents :
                x.linked_to_type = "article" /\ x.linked_id = a.id
          /\ \A l \in db.bom_lines : l.article_id # a.id
          /\ \A x \in db.documents :
                ~(x.linked_to_type = "article" /\ x.linked_id = a.id)

\* the issues of a severity logged for a run
IssuesOf(d, run_id, severity) ==
    { i \in DOMAIN d.import_issues :
        /\ d.import_issues[i].import_run_id = run_id
        /\ d.import_issues[i].severity = severity }

\* C6: when BOM files fail in a pass, every other discovered file is still
\* processed, each failing file has exactly one error issue of the run and
\* counts once in errors_count, and the pass returns with its run
\* completed_with_warnings.
C6_failing_files_never_fail_the_run ==
    /\ (InPass \/ hist.ended \in {"returned", "raised"}) =>
          /\ ix.stats.errors_count = Cardinality(FailedFiles)
          /\ Cardinality(IssuesOf(db, ix.run_id, "error")) = Cardinality(FailedFiles)
          /\ \A f \in FailedFiles :
                Cardinality({ i \in IssuesOf(db, ix.run_id, "error") :
                                db.import_issues[i].file_path = f }) = 1
    /\ pc \in {"docs", "finish"} =>
          \A f \in BomUniverse :
            (f.root = root /\ bomDisk[f] # 0) =>
                hist.outcome[f] \in {"skipped", "replaced", "failed"}
    /\ (pc = "idle" /\ hist.ended # "none" /\ FailedFiles # {}) =>
          /\ hist.ended = "returned"
          /\ db.import_runs[ix.run_id].status = "completed_with_warnings"
          /\ db.import_runs[ix.run_id].errors_count = Cardinality(FailedFiles)

\* the committed BOM lines of an article are the ones of the start of the pass
CompleteOld(a) ==
    { l \in committed.bom_lines : l.article_id = a.id }
      = { l \in hist.before.bom_lines : l.article_id = a.id }

\* the committed BOM lines of an article are the rows of the latest parse of
\* its source file
CompleteNew(a) ==
    StoredRows(committed, a.id) = ParsedRows(hist.latest[a.source_bom_path])

\* C7: in every committed state, which is what a second connection reads, also
\* after the worker was abandoned, the BOM lines of each article are the
\* complete old set or the complete new set.
C7_committed_lines_old_or_new ==
    \A a \in committed.articles : CompleteOld(a) \/ CompleteNew(a)

\* the statuses that end a run
TerminalStatuses == {"completed", "completed_with_warnings", "failed"}

\* C8: a run starts as running; once it has a terminal status its row never
\* changes; the step that ends it writes completed when the run has no issue,
\* completed_with_warnings when it has one, failed exactly when the pass
\* raises; no run is running once run_index has returned or raised.
C8_run_status_lifecycle ==
    [][/\ \A i \in DOMAIN db'.import_runs :
             IF i \notin DOMAIN db.import_runs
             THEN db'.import_runs[i].status = "running"
             ELSE IF db.import_runs[i].status # "running"
             THEN db'.import_runs[i] = db.import_runs[i]
             ELSE IF db'.import_runs[i].status # "running"
             THEN /\ i = ix.run_id
                  /\ db'.import_runs[i].status =
                       IF hist'.ended = "raised" THEN "failed"
                       ELSE IF IssuesOf(db', i, "warning") = {}
                               /\ IssuesOf(db', i, "error") = {}
                       THEN "completed"
                       ELSE "completed_with_warnings"
                  /\ hist'.ended \in {"returned", "raised"}
                  /\ committed' = db'
             ELSE TRUE
       /\ pc' = "idle" =>
             \A i \in DOMAIN db'.import_runs :
                db'.import_runs[i].status \in TerminalStatuses]_vars

\* a pass has raised and its run is failed while an earlier run keeps the
\* terminal status it ended with
C8_witness ==
    /\ pc = "idle"
    /\ hist.ended = "raised"
    /\ db.import_runs[ix.run_id].status = "failed"
    /\ \E i \in DOMAIN db.import_runs :
          i # ix.run_id /\ db.import_runs[i].status = "completed_with_warnings"

\* the document rows, as read at the start of the pass, with the path, the
\* size and the mtime of f
StoredUnchanged(f) ==
    \E x \in hist.before.documents : /\ x.path = f
                                     /\ x.size_bytes = DocStat(f).size
                                     /\ x.modified_at = DocStat(f).mtime

\* the caller asked for a relink, or a BOM file was reprocessed, or an article
\* was pruned in this pass
ForcedRelink ==
    \/ ix.force_doc_relink
    \/ \E f \in BomUniverse : hist.deletes[f] > 0 \/ hist.parsed[f] # << >>
    \/ Ids(hist.before.articles) \ Ids(db.articles) # {}

\* C9: a document reached by the pass is matched again exactly when it is new
\* or changed or a forced relink applies; otherwise its row stays as it was.
C9_rematch_iff_changed_or_forced ==
    pc \in {"docs", "finish"} =>
      \A f \in DocUniverse :
        hist.doc_outcome[f] # "none" =>
          IF StoredUnchanged(f) /\ ~ForcedRelink
          THEN /\ hist.doc_outcome[f] = "skipped"
               /\ DocumentByPath(db, f) = DocumentByPath(hist.before, f)
          ELSE hist.doc_outcome[f] = "matched"

\* the path lies inside a managed document folder of the data root r
InManagedFolder(path, r) == path.root = r /\ path.folder \in ManagedFolders

\* C10: index_documents leaves the rows of existing files outside the managed
\* folders as they are, and when it is done no row is left whose file is gone
\* or whose path lies inside a managed folder without having been listed by
\* the scan.
C10_stale_documents_removed ==
    [][pc = "docs" =>
         /\ \A x \in db.documents :
               (docDisk[x.path] # 0 /\ ~InManagedFolder(x.path, root))
               => x \in db'.documents
         /\ pc' = "finish" =>
               \A x \in db'.documents :
                  /\ docDisk[x.path] # 0
                  /\ InManagedFolder(x.path, root) => x.path \in DiscoverDocs(root)]_vars

\* index_documents is done: the row of a file that is gone was removed and the
\* row of an existing file outside the managed folders is still there
C10_witness ==
    /\ pc = "finish"
    /\ \E x \in hist.before.documents : x \notin db.documents /\ docDisk[x.path] = 0
    /\ \E y \in hist.before.documents :
          y \in db.documents /\ ~InManagedFolder(y.path, root)

\* the reasons index_documents stores with a document it leaves unlinked
UnmatchedReasons ==
    {"no_part_token_in_filename", "part_not_found_in_bom_index", "revision_mismatch",
     "ambiguous_revision_required", "ambiguous_or_missing_revision"}

\* the reasons index_documents stores with a document it links to a part
MatchedReasons ==
    {"matched_part_and_revision", "matched_part_no_revision",
     "matched_part_single_revision", "matched_part_fallback"}

\* the document rows written by the running pass
WrittenByPass(d) == { x \in d.documents : x.import_run_id = ix.run_id }

\* C11: when a pass returns (completed or completed_with_warnings), every file
\* present in a managed document folder has exactly one Document row, every
\* unlinked row written by the pass carries a reason of the unmatched taxonomy
\* and every linked row written by the pass is linked to a part with a
\* matched_* reason.
C11_every_document_has_a_classified_row ==
    [][(pc = "finish" /\ pc' = "idle" /\ hist'.ended = "returned") =>
         /\ \A f \in DiscoverDocs(root) : Cardinality(DocumentByPath(db', f)) = 1
         /\ \A x \in WrittenByPass(db') :
               IF x.linked_to_type = None
               THEN x.linked_id = NoId /\ x.link_reason \in UnmatchedReasons
               ELSE /\ x.linked_to_type = "part"
                    /\ x.linked_id \in Ids(db'.parts)
                    /\ x.link_reason \in MatchedReasons]_vars

\* C20: upsert_part on an existing part number changes the stored description
\* only when it is null: a non-null stored description stays as it is in every
\* step of a pass.
C20_description_filled_only_when_null ==
    [][\A p \in db.parts : \A q \in db'.parts :
          (q.part_number = p.part_number /\ p.description # NoText)
          => q.description = p.description]_vars

\* the part and revision tokens of the probed file name
Probed == parse_document_part_and_revision(probe.filename)

\* the stored parts with the probed part number
ProbedParts == PartByNumber(db, Probed.part_number)

\* the upper-cased non-blank revisions on the BOM lines of the probed part
ProbedRevisions ==
    { Upper(l.revision) : l \in { x \in db.bom_lines :
          (\E p \in ProbedParts : x.part_id = p.id) /\ x.revision # NoText } }

\* a call was made with a name carrying a part token and a revision token
ProbedWithRevision ==
    probe # NoProbe /\ Probed.found /\ Probed.revision # NoText

\* a call was made with a name carrying a part token and no revision token
ProbedWithoutRevision ==
    probe # NoProbe /\ Probed.found /\ Probed.revision = NoText

\* C18: for a name with part token P and revision token R the result is
\* (id of P, R, matched_part_and_revision) exactly when P is indexed and one
\* of its lines carries R in any letter case; it is revision_mismatch without
\* part and revision when P is indexed and no line carries R, and
\* part_not_found_in_bom_index when P is not indexed.
C18_revision_match_iff_line_carries_it ==
    ProbedWithRevision =>
      /\ (probe.result.link_reason = "matched_part_and_revision")
           <=> (ProbedParts # {} /\ Probed.revision \in ProbedRevisions)
      /\ (probe.result.link_reason = "matched_part_and_revision") =>
            /\ \E p \in ProbedParts : probe.result.part_id = p.id
            /\ probe.result.part_revision = Probed.revision
      /\ (ProbedParts # {} /\ Probed.revision \notin ProbedRevisions) =>
            probe.result = NoMatch("revision_mismatch")
      /\ ProbedParts = {} =>
            /\ probe.result.part_id = NoId
            /\ probe.result.link_reason = "part_not_found_in_bom_index"

\* the function was called with a revision token that a line of the part
\* carries in another letter case only, and it matched
C18_witness ==
    /\ ProbedWithRevision
    /\ probe.result.link_reason = "matched_part_and_revision"
    /\ \A l \in db.bom_lines : l.revision # Probed.revision
    /\ \E l \in db.bom_lines : l.revision # NoText

\* C19: for a name with the part token of an indexed part and no revision
\* token the result links to the part exactly when the lines of the part carry
\* at most one distinct non-blank revision; otherwise it is
\* ambiguous_revision_required without part.
C19_no_revision_links_unless_ambiguous ==
    (ProbedWithoutRevision /\ ProbedParts # {}) =>
      IF Cardinality(ProbedRevisions) <= 1
      THEN \E p \in ProbedParts : probe.result.part_id = p.id
      ELSE probe.result = NoMatch("ambiguous_revision_required")

\* the leaves the cart was given under the compound key of entry e
GivenUnder(e) ==
    { i \in DOMAIN ledger : /\ ledger[i].article_id = e.article_id
                            /\ ledger[i].item_no = e.item_no
                            /\ ledger[i].part_number = e.part_number
                            /\ ledger[i].revision = e.revision }

\* the sum of the quantities of the ledger entries with the indices I
RECURSIVE SumGiven(_)
SumGiven(I) ==
    IF I = {} THEN 0
    ELSE LET i == CHOOSE j \in I : TRUE IN ledger[i].qty + SumGiven(I \ {i})

\* C15: after any sequence of add-to-order operations the order list holds at
\* most one entry per compound key (owning article, item number, part number,
\* revision), every leaf that was added is held under its key, and each
\* entry's total quantity is the sum of the quantities added under its key.
C15_one_entry_per_key_with_summed_quantity ==
    /\ \A k1 \in DOMAIN order_cart : \A k2 \in DOMAIN order_cart :
          GivenUnder(order_cart[k1]) = GivenUnder(order_cart[k2]) => k1 = k2
    /\ \A i \in DOMAIN ledger : \E k \in DOMAIN order_cart : i \in GivenUnder(order_cart[k])
    /\ \A k \in DOMAIN order_cart :
          order_cart[k].qty_total = SumGiven(GivenUnder(order_cart[k]))

\* C13: the quantity order explosion adds for a part is the chosen
\* multiplier times the product of the BOM quantities of every line on the
\* path from the start node down to and including the part, a missing
\* quantity counting as 1.
C13_effective_quantity_is_product_of_path ==
    \A i \in DOMAIN ledger : ledger[i].qty = ledger[i].path_qty

\* the leaves the running explosion has given the cart so far
GivenNow == { i \in DOMAIN ledger : op.state = "running" /\ ledger[i].order = orders }

\* C14: whenever explosion reaches a line that is a sub-assembly reference,
\* the parts contributed below that line are lines of the referenced
\* Article's currently stored line set, not the child nodes shown under that
\* line in the tree built for the displayed Article.
C14_sub_assembly_contributes_stored_lines ==
    /\ \A i \in DOMAIN ledger : ledger[i].below_ref => ledger[i].via = "row"
    /\ \A i \in GivenNow : ledger[i].via = "row" =>
          \E l \in db.bom_lines : /\ l.id = ledger[i].line_id
                                  /\ l.article_id = ledger[i].article_id
                                  /\ l.item_no = ledger[i].item_no

\* C17: no recursive step descends below depth 20. A call of one of the three
\* recursive routines entered at a depth greater than 20 returns at once: it
\* adds a max-depth warning, adds no part and makes no further call; so no
\* call is ever entered deeper than 21 and no part is added deeper than 20.
C17_no_step_below_max_depth ==
    [][/\ (Len(calls) > 1 /\ Top.depth > MaxDepth) =>
             /\ calls' = Pop
             /\ warnings' = Append(warnings, warn_max_depth)
             /\ order_cart' = order_cart
             /\ ledger' = ledger
       /\ \A i \in DOMAIN calls' : calls'[i].depth <= MaxDepth + 1
       /\ \A i \in DOMAIN ledger' : ledger'[i].depth <= MaxDepth]_vars

\* add_article_children_to_cart has just been entered at depth 21, at the
\* end of the chain of Articles
C17_witness ==
    /\ Len(calls) > 1
    /\ Top.fn = "add_article_children_to_cart"
    /\ Top.depth = MaxDepth + 1
    /\ Top.idx = 0

\* the top activation is a tree routine about to look at its item
AtTreeItem ==
    /\ Len(calls) > 1
    /\ Top.fn \in {"add_tree_children_to_cart", "add_tree_full_to_cart"}
    /\ Top.idx = 0
    /\ Top.depth <= MaxDepth

\* the top activation is add_article_children_to_cart about to read line idx
AtArticleLine ==
    /\ Len(calls) > 1
    /\ Top.fn = "add_article_children_to_cart"
    /\ Top.idx \in DOMAIN Top.lines

\* the explosion has reached the reference to a sub-assembly that is gone
MissingSubassembly ==
    /\ AtTreeItem
    /\ bom_tree[Top.item].node_type = "assembly_ref"
    /\ get_article(db, bom_tree[Top.item].child_article_id) = {}

\* the explosion has entered an Article without BOM lines
ArticleWithoutLines ==
    /\ Len(calls) > 1
    /\ Top.fn = "add_article_children_to_cart"
    /\ Top.idx = 0
    /\ Top.depth <= MaxDepth
    /\ { l \in db.bom_lines : l.article_id = Top.article_id } = {}

\* the line the explosion reads names an Article that is already on its path
CycleClosed ==
    /\ AtArticleLine
    /\ resolve_article_ref_id(db, Top.lines[Top.idx].part_number) \in Top.visited \ {NoId}

\* one more warning, no part added
OnlyWarns == Len(warnings') = Len(warnings) + 1 /\ ledger' = ledger /\ order_cart' = order_cart

\* the items directly under the root that are parts: no child nodes, no Article of that number
RootParts ==
    { k \in DOMAIN bom_tree : /\ bom_tree[k].parent = 0
                              /\ Children(bom_tree, k) = << >>
                              /\ bom_tree[k].node_type = "part"
                              /\ resolve_article_ref_id(db, bom_tree[k].part_number) = NoId }

\* C16: a missing sub-assembly, a cycle, the depth limit and a sub-assembly
\* Article without BOM lines each become a warning and add no part; the
\* explosion goes on (every pending call has its item or its lines until the
\* result is shown), the warnings shown hold no duplicates, and the parts on the other
\* branches are in the result: after an explosion from the Article node every
\* part directly under it has been added.
C16_failures_become_warnings ==
    [][/\ MissingSubassembly =>
             \/ OnlyWarns
             \/ /\ calls'[Len(calls')].fn = "add_article_children_to_cart"
                /\ calls'[Len(calls')].article_id = bom_tree[Top.item].child_article_id
       /\ ArticleWithoutLines => OnlyWarns /\ calls' = Pop
       /\ CycleClosed => OnlyWarns /\ Len(calls') = Len(calls)
       /\ (Len(calls) > 1 /\ Top.depth > MaxDepth) => OnlyWarns /\ calls' = Pop
       /\ op'.state = "running" =>
             /\ calls' # << >>
             /\ \A i \in DOMAIN calls' : i > 1 =>
                   /\ calls'[i].fn = "add_article_children_to_cart" \/ calls'[i].item \in DOMAIN bom_tree'
                   /\ calls'[i].idx > 0 /\ calls'[i].fn = "add_article_children_to_cart" =>
                         calls'[i].lines # << >>
       /\ (op.state = "running" /\ op'.state = "done") =>
             /\ Range(op'.unique_warnings) = Range(warnings)
             /\ \A i \in DOMAIN op'.unique_warnings : \A j \in DOMAIN op'.unique_warnings :
                   op'.unique_warnings[i] = op'.unique_warnings[j] => i = j
             /\ (op.current = 0 /\ op.mode # "selected") =>
                   \A k \in RootParts : \E i \in DOMAIN ledger :
                      /\ ledger[i].order = orders
                      /\ ledger[i].via = "tree"
                      /\ ledger[i].line_id = bom_tree[k].line_id]_vars

\* two Articles with a line each that resolves to the other one
TwoArticleCycle(x, y) ==
    /\ x # y
    /\ \E l \in DOMAIN get_article_bom_lines(db, x) :
          resolve_article_ref_id(db, get_article_bom_lines(db, x)[l].part_number) = y
    /\ \E l \in DOMAIN get_article_bom_lines(db, y) :
          resolve_article_ref_id(db, get_article_bom_lines(db, y)[l].part_number) = x

\* the explosion started at the node of an Article of a two-article cycle,
\* or at its line for the other Article, and included the children
ExplodedCycle ==
    /\ op.mode # "selected"
    /\ \E a \in db.articles :
          /\ TwoArticleCycle(current_article_id, a.id)
          /\ op.current # 0 => resolve_article_ref_id(db, bom_tree[op.current].part_number) = a.id

CycleWarnings(ws) == { i \in DOMAIN ws : ws[i].kind = "warn_cycle_detected" }

\* every explosion that was started comes to its end
C12_explosion_terminates == (op.state = "running") ~> (op.state = "done")

\* C12: order explosion terminates from any start node in any inclusion
\* mode, also in a graph with a sub-assembly reference cycle (that half is
\* C12_explosion_terminates), and the explosion of an Article of a
\* two-article cycle, from its node or from its line for the other Article,
\* children-only or full-subtree, ends with exactly one cycle warning in
\* the deduplicated list.
C12_two_article_cycle_reports_one_warning ==
    [][(op.state = "running" /\ op'.state = "done" /\ ExplodedCycle)
        => Cardinality(CycleWarnings(op'.unique_warnings)) = 1]_vars

\* the part rows of a database: id and part number
PartRows(d) == { <<p.id, p.part_number>> : p \in d.parts }

\* C21: no step of an indexing pass deletes a Part row, whether BOM files
\* changed, disappeared or Articles were pruned: the committed part rows
\* only grow, and so do the part rows the indexing connection sees, up to
\* the rollback of an abandoned pass.
C21_parts_are_never_deleted ==
    [][/\ PartRows(committed) \subseteq PartRows(committed')
       /\ pc' # "abandoned" => PartRows(db) \subseteq PartRows(db')]_vars

\* a pass has pruned an Article and a part no line refers to is still stored
C21_witness ==
    /\ pc = "docs"
    /\ ix.removed_articles > 0
    /\ \E p \in db.parts : \A l \in db.bom_lines : l.part_id # p.id

\* the rows of the workbook in file f whose part number cell is blank
BlankRows(f) ==
    LET rows == Workbooks[BomStat(f).workbook].rows
    IN { rows[i].source_row_number : i \in { k \in DOMAIN rows : rows[k].part_number = NoText } }

\* the BOM files the current pass has processed to the end
ProcessedFiles == { f \in BomUniverse : hist.outcome[f] = "replaced" }

\* the warning issues a database holds for a run, a file and a row
WarningsFor(d, run_id, f, row_number) ==
    { k \in DOMAIN d.import_issues :
        /\ d.import_issues[k].import_run_id = run_id
        /\ d.import_issues[k].severity = "warning"
        /\ d.import_issues[k].file_path = f
        /\ d.import_issues[k].row_number = row_number }

\* C22: when a pass ends, every row with an empty part number in a BOM file
\* the pass processed has inserted no BOM line and has exactly one warning
\* issue of the run with its file and row; warnings_count counts these rows
\* and the pass over such a file ends completed_with_warnings.
C22_empty_part_number_row_gives_one_warning ==
    [][(pc = "finish" /\ pc' = "idle") =>
        LET run == db'.import_runs[ix.run_id]
            blank == { <<f, n>> \in ProcessedFiles \X (1..3) : n \in BlankRows(f) }
        IN /\ \A fn \in blank :
                /\ Cardinality(WarningsFor(db', ix.run_id, fn[1], fn[2])) = 1
                /\ ~\E l \in db'.bom_lines : /\ l.import_run_id = ix.run_id
                                              /\ l.source_row_number = fn[2]
                                              /\ l.article_id = article_id_of(db', extract_article_from_filename(fn[1].name))
           /\ run.warnings_count = Cardinality(blank)
           /\ blank # {} => run.status = "completed_with_warnings"]_vars

\* the listed document f is gone when index_documents reaches it
VanishesNow(f) == pc = "docs" /\ f \in NextDocs /\ docDisk[f] # 0 /\ docDisk'[f] = 0

\* C23: a failure local to one document during document indexing (the file
\* is gone when it is stat'ed) is swallowed: the pass stays in its document
\* phase with the remaining documents still to process (so that they and
\* the pruning of stale documents follow), the run is not marked failed and
\* nothing is raised to the caller.
C23_document_failure_is_swallowed ==
    [][\A f \in DocUniverse : VanishesNow(f) =>
          /\ pc' = "docs"
          /\ dx.todo \ {f} \subseteq dx'.todo
          /\ db'.import_runs[ix.run_id].status # "failed"
          /\ hist'.ended # "raised"]_vars

\* an item number as the numbers between its dots
ItemNumbers(item_no) ==
    LET tokens == Split(item_no, ".")
    IN [i \in DOMAIN tokens |-> ToInt(tokens[i])]

\* component-wise comparison of two lists of numbers, a proper prefix first
NumbersLess(a, b) ==
    \E k \in 1..(Len(b)) :
        /\ \A i \in 1..(k - 1) : i <= Len(a) /\ a[i] = b[i]
        /\ k > Len(a) \/ a[k] < b[k]

\* line a stands before line b in the order of the specification: by item
\* number, then the lines with a line number only, then the lines with
\* neither in the order they were inserted
ClaimedBefore(a, b) ==
    IF a.item_no # NoText /\ b.item_no # NoText
    THEN NumbersLess(ItemNumbers(a.item_no), ItemNumbers(b.item_no))
    ELSE IF a.item_no # NoText \/ b.item_no # NoText THEN a.item_no # NoText
    ELSE IF a.line_no # NoLineNo /\ b.line_no # NoLineNo THEN a.line_no < b.line_no
    ELSE IF a.line_no # NoLineNo \/ b.line_no # NoLineNo THEN a.line_no # NoLineNo
    ELSE a.id < b.id

\* the tree on display was just built from the lines get_article_bom_lines gave
Displays == bom_tree' # bom_tree

\* C24: get_article_bom_lines returns the lines of the Article, each once,
\* ascending by item number compared number by number along the dots, then
\* the lines with a blank item number by line number, then the lines with
\* neither in insertion order (read off the items display_article_by_id
\* makes of the returned rows, one per row and in their order).
C24_lines_sorted_by_item_hierarchy ==
    [][Displays =>
        LET lines == { l \in db'.bom_lines : l.article_id = current_article_id' }
        IN /\ Len(bom_tree') = Cardinality(lines)
           /\ { bom_tree'[i].line_id : i \in DOMAIN bom_tree' } = { l.id : l \in lines }
           /\ \A i, j \in DOMAIN bom_tree' : i < j =>
                 LET a == CHOOSE l \in lines : l.id = bom_tree'[i].line_id
                     b == CHOOSE l \in lines : l.id = bom_tree'[j].line_id
                 IN ~ClaimedBefore(b, a)]_vars

\* item number p is item number c without its last dotted component
IsParentItem(p, c) ==
    LET tokens == Split(c, ".")
    IN /\ p # NoText
       /\ Len(tokens) >= 2
       /\ Split(p, ".") = SubSeq(tokens, 1, Len(tokens) - 1)

\* C25: in the tree built for an Article every BOM line appears exactly
\* once; an item hangs under an item whose item number is its own without
\* the last dotted component whenever the Article has such a line, whatever
\* the order the lines were stored in, and under the Article root when its
\* item number has no dot, is blank, or names a parent no line carries.
C25_tree_follows_item_hierarchy ==
    [][Displays =>
        LET lines == { l \in db'.bom_lines : l.article_id = current_article_id' }
            tree == bom_tree'
        IN /\ \A l \in lines : Cardinality({ i \in DOMAIN tree : tree[i].line_id = l.id }) = 1
           /\ \A i \in DOMAIN tree : \E l \in lines : l.id = tree[i].line_id /\ l.item_no = tree[i].text
           /\ \A i \in DOMAIN tree :
                 IF \E l \in lines : IsParentItem(l.item_no, tree[i].text)
                 THEN /\ tree[i].parent \in DOMAIN tree
                      /\ IsParentItem(tree[tree[i].parent].text, tree[i].text)
                 ELSE tree[i].parent = 0]_vars

\* a tree on display in which an item hangs under a line that was stored
\* after it, and an item with a dotted number hangs under the root
C25_witness ==
    /\ current_article_id # NoId
    /\ Len(bom_tree) = MaxTreeLines
    /\ \E i, j \in DOMAIN bom_tree :
          /\ bom_tree[i].parent = j
          /\ bom_tree[j].line_id > bom_tree[i].line_id
    /\ \E k \in DOMAIN bom_tree :
          /\ Len(Split(bom_tree[k].text, ".")) >= 2
          /\ bom_tree[k].parent = 0

\* the names a part number is tried under: itself, each run of three or
\* more digits in it, and each run without its leading zeros
TriedNames(part_number) ==
    IF part_number = NoText THEN {}
    ELSE {[text |-> part_number, run |-> NoText, literal |-> TRUE, stripped |-> FALSE]}
         \cup { [text |-> r, run |-> r, literal |-> FALSE, stripped |-> FALSE]
                 : r \in DigitTokens(part_number) }
         \cup { [text |-> lstrip0(r), run |-> r, literal |-> FALSE, stripped |-> TRUE]
                 : r \in DigitTokens(part_number) }

\* name c is tried before name e: the literal part number first, a longer
\* run before a shorter one, a run before its stripped form
TriedBefore(c, e) ==
    \/ c.literal /\ ~e.literal
    \/ /\ ~c.literal /\ ~e.literal
       /\ \/ Len(c.run) > Len(e.run)
          \/ c.run = e.run /\ ~c.stripped /\ e.stripped

\* the Articles named by a tried name before which no tried name names one
FirstNamedArticles(d, part_number) ==
    { article_id_of(d, c.text) :
        c \in { x \in TriedNames(part_number) :
                  /\ ArticleByNumber(d, x.text) # {}
                  /\ \A e \in TriedNames(part_number) :
                        TriedBefore(e, x) => ArticleByNumber(d, e.text) = {} } }

\* C26: a line of the tree is a sub-assembly reference to Article A exactly
\* when A is the first indexed Article found under the literal part number,
\* then its runs of three or more digits, longest first, each followed by
\* the run without leading zeros; it is a terminal part when no name is an
\* indexed Article. The resolution of one line used by the explosion agrees
\* with the batch resolution the tree was built with.
C26_reference_is_first_named_article ==
    [][Displays =>
        \A i \in DOMAIN bom_tree' :
            LET item == bom_tree'[i]
                named == FirstNamedArticles(db', item.part_number)
            IN /\ IF named = {}
                  THEN item.node_type = "part" /\ item.child_article_id = NoId
                  ELSE item.node_type = "assembly_ref" /\ item.child_article_id \in named
               /\ Cardinality(named) <= 1
               /\ resolve_article_ref_id(db', item.part_number) = item.child_article_id]_vars

\* a tree on display with a terminal part, a reference found under a run
\* without its leading zeros, and a reference found under the longer of
\* two runs that both name an Article
C26_witness ==
    /\ current_article_id # NoId
    /\ \A n \in {art100, art200, art407} : ArticleByNumber(db, n) # {}
    /\ \E i, j, k \in DOMAIN bom_tree :
          /\ bom_tree[i].node_type = "part"
          /\ bom_tree[j].part_number = pn407
          /\ bom_tree[j].child_article_id = article_id_of(db, art407)
          /\ bom_tree[k].part_number = pnTwoRuns
          /\ bom_tree[k].child_article_id = article_id_of(db, art200)

\* the part each strategy finds on its own for a file name, in the order
\* named: exact part and revision, regex token, normalised equality,
\* normalised part number within the name, description within the name,
\* token overlap; NoId where the strategy finds none
StrategyResults(d, filename, cache) ==
    LET filename_norm == normalize_for_match(Stem(filename))
        groups == PartRegexMatches(filename, 1)
        tokens == { i \in DOMAIN groups : PartByNumber(d, Upper(groups[i])) # {} }
    IN << find_part_match_with_revision(d, filename).part_id,
          IF tokens = {} THEN NoId ELSE part_id_of(d, Upper(groups[Leftmost(tokens)])),
          FirstHit(cache, { i \in DOMAIN cache : /\ cache[i].part_norm # NoText
                                                  /\ cache[i].part_norm = filename_norm }),
          FirstHit(cache, { i \in DOMAIN cache : /\ Len(cache[i].part_norm) >= 4
                                                  /\ Contains(filename_norm, cache[i].part_norm) }),
          FirstHit(cache, { i \in DOMAIN cache : /\ Len(cache[i].description_norm) >= 8
                                                  /\ Contains(filename_norm, cache[i].description_norm) }),
          token_overlap_match(cache, tokenize_for_match(Stem(filename))) >>

\* the strategies that find a part
Succeeding(results) == { k \in DOMAIN results : results[k] # NoId }

\* the row stored for the document just matched
LinkedRow == CHOOSE r \in db.documents : r.path = LinkPath(probe.filename)

\* C27: the link stored for a discovered document is the result of the
\* first of the six strategies, in their fixed order, that finds a part; a
\* link found by one of the strategies 2 to 6 is stored with reason
\* matched_part_fallback and without part_revision; with no strategy
\* finding a part the document is stored unlinked.
C27_link_is_first_successful_strategy ==
    probe.result = "stored" =>
        LET results == StrategyResults(db, probe.filename, load_parts_cache(db))
            exact == find_part_match_with_revision(db, probe.filename)
        IN IF Succeeding(results) = {}
           THEN LinkedRow.linked_to_type = None /\ LinkedRow.linked_id = NoId
           ELSE /\ LinkedRow.linked_to_type = "part"
                /\ LinkedRow.linked_id = results[Leftmost(Succeeding(results))]
                /\ IF Leftmost(Succeeding(results)) = 1
                   THEN /\ LinkedRow.link_reason = exact.link_reason
                        /\ LinkedRow.part_revision = exact.part_revision
                   ELSE /\ LinkedRow.link_reason = "matched_part_fallback"
                        /\ LinkedRow.part_revision = NoText

\* a document linked by a strategy after which a later strategy would have
\* found another part
LaterStrategyDiffers(k) ==
    /\ probe.result = "stored"
    /\ LET results == StrategyResults(db, probe.filename, load_parts_cache(db))
       IN /\ Succeeding(results) # {}
          /\ Leftmost(Succeeding(results)) = k
          /\ \E j \in Succeeding(results) : j > k /\ results[j] # results[k]

C27_witness == LaterStrategyDiffers(2)

\* the name holds a part-number-shaped token at position i: two digits, a
\* dash, five or six digits, with no digit before or after
PartTokenAt(name, i) ==
    /\ i + 7 <= Len(name)
    /\ IsDigit(name[i]) /\ IsDigit(name[i + 1]) /\ name[i + 2] = "-"
    /\ DigitRun(name, i + 3) \in {5, 6}
    /\ i > 1 => ~IsDigit(name[i - 1])

HasPartToken(name) == \E i \in DOMAIN name : PartTokenAt(name, i)

\* C28: a document whose file name holds no part-number-shaped token and
\* that no strategy matches to a Part is stored unlinked with reason
\* no_part_token_in_filename.
C28_no_token_no_match_reason ==
    (/\ probe.result = "stored"
     /\ ~HasPartToken(probe.filename)
     /\ Succeeding(StrategyResults(db, probe.filename, load_parts_cache(db))) = {})
    => /\ LinkedRow.linked_to_type = None
       /\ LinkedRow.linked_id = NoId
       /\ LinkedRow.link_reason = "no_part_token_in_filename"

\* "manual.pdf" stored unlinked with that reason while the table holds parts
C28_witness ==
    /\ probe.result = "stored"
    /\ probe.filename = <<"m","a","n","u","a","l",".","p","d","f">>
    /\ Cardinality(db.parts) = MaxLinkParts
    /\ LinkedRow.linked_id = NoId
    /\ LinkedRow.link_reason = "no_part_token_in_filename"

\* the status of the run started last
LatestStatus(d) == d.import_runs[Len(d.import_runs)].status

\* this step writes the terminal status of the running pass
StatusWritten ==
    /\ Len(db.import_runs) > 0
    /\ Len(db'.import_runs) = Len(db.import_runs)
    /\ LatestStatus(db) = "running"
    /\ LatestStatus(db') # "running"

\* every discovered BOM file was skipped or processed
BomsHandled == \A f \in DiscoverBoms(root) : hist.outcome[f] \in {"skipped", "replaced", "failed"}

\* every discovered document was skipped or matched
DocsHandled == \A f \in DiscoverDocs(root) : hist.doc_outcome[f] \in {"skipped", "matched"}

\* this step skips or matches a document
DocStep == \E f \in DocUniverse : hist.doc_outcome[f] = "none" /\ hist'.doc_outcome[f] \in {"skipped", "matched"}

\* the order of the phases up to the pruning of documents
PhasesUpToDocuments ==
    /\ (pc = "boms" /\ pc' = "docs") => BomsHandled
    /\ DocStep => /\ BomsHandled /\ ix.bom_files = << >>
                  /\ MissingArticles(db, root) = {}
                  /\ dx.parts_cache = load_parts_cache(db)
                  /\ db'.parts = db.parts /\ db'.bom_lines = db.bom_lines
    /\ (pc = "docs" /\ pc' = "finish") => DocsHandled

\* C29: in a pass every discovered BOM file is skipped or processed, then
\* stale Articles are pruned, then the documents are discovered and matched,
\* then stale Documents are pruned, and only then the terminal status of
\* the run is written; every document is matched against the Parts and BOM
\* lines as they are after the BOM processing and Article pruning.
C29_phases_in_order ==
    [][/\ PhasesUpToDocuments
       /\ StatusWritten => /\ DocsHandled
                           /\ remove_missing_documents(db, root, dx.seen_paths) = db]_vars

\* the Articles whose recorded source is BOM file f
SourcedBy(d, f) == { a \in d.articles : a.source_bom_path = f }

\* C30: after a pass in which every discovered BOM file was processed
\* without error, each discovered BOM file is the recorded source of
\* exactly one Article and no two BOM files share an Article, also when
\* two file names yield the same article number.
C30_each_bom_file_has_its_article ==
    [][(/\ pc = "finish" /\ pc' = "idle" /\ hist'.ended = "returned"
        /\ \A f \in DiscoverBoms(root) : hist.outcome[f] = "replaced")
       => \A f \in DiscoverBoms(root) : Cardinality(SourcedBy(db', f)) = 1]_vars

\* the indexing passes executing: the workers whose done flag is not set,
\* and the pass save_bom_edits runs on the UI thread
Executing ==
    Cardinality({ k \in DOMAIN threads.workers : threads.workers[k] = "running" })
        + (IF threads.caller = "save_bom_edits" THEN 1 ELSE 0)

\* C31: at most one indexing pass executes at any time; the startup pass, a
\* re-index requested from the main window and the re-index after saving
\* BOM edits never overlap.
C31_one_pass_at_a_time == Executing <= 1

\* parse_sheet_rows was applied to the rows of the sheet
SheetParsed == "rows" \in DOMAIN probe /\ probe.parsed

\* the columns of the header row that name the field
ColumnsOf(header_row, field) ==
    { idx \in DOMAIN header_row :
        \E k \in FieldsOf(normalize_header(CellText(header_row[idx]))) :
            CANONICAL_FIELDS[k].name = field }

\* the value of the row in a column: None beyond its end and for a blank string
ValueIn(row, idx) ==
    IF idx > Len(row) THEN NoCell
    ELSE IF row[idx].kind = "str" /\ strip(row[idx].text) = << >> THEN NoCell
    ELSE row[idx]

\* the columns that name the field, when there are several and the row
\* reaches them all; the empty set otherwise
Doubled(row, header_row, field) ==
    IF /\ Cardinality(ColumnsOf(header_row, field)) >= 2
       /\ \A idx \in ColumnsOf(header_row, field) : idx <= Len(row)
    THEN ColumnsOf(header_row, field) ELSE {}

\* a line carries in its doubled fields the values of the columns picked
LineTakenFrom(line, row, header_row, pick(_)) ==
    /\ Doubled(row, header_row, "part_number") # {}
          => line.part_number = strip(CellText(ValueIn(row, pick(Doubled(row, header_row, "part_number")))))
    /\ Doubled(row, header_row, "qty") # {}
          => line.qty = parse_qty(ValueIn(row, pick(Doubled(row, header_row, "qty"))))
    /\ Doubled(row, header_row, "description") # {}
          => line.description = to_text(ValueIn(row, pick(Doubled(row, header_row, "description"))))

\* C32: when two columns of the header row map to the same canonical field
\* both are accepted, and every parsed line takes the value of that field
\* from the later of the columns.
C32_later_duplicate_column_wins ==
    SheetParsed =>
        \A k \in DOMAIN probe.result :
            LineTakenFrom(probe.result[k], probe.rows[probe.result[k].source_row_number],
                          probe.rows[detect_header(probe.rows).index], Greatest)

\* the rows detect_header may choose: the rows among the first max_scan
\* that hold a part number column
HeaderCandidates(rows) ==
    { i \in DOMAIN rows : i <= max_scan /\ "part_number" \in MappedFields(map_headers(rows[i])) }

\* the number of columns of a row that the column mapper recognises
Recognized(row) == Cardinality(DOMAIN map_headers(row))

\* the row is the first of the candidates with the most recognised columns
BestCandidate(rows, h) ==
    /\ h \in HeaderCandidates(rows)
    /\ \A j \in HeaderCandidates(rows) :
          \/ Recognized(rows[j]) < Recognized(rows[h])
          \/ Recognized(rows[j]) = Recognized(rows[h]) /\ h <= j

\* C33: the header row of a parsed sheet is, among the first 30 rows that
\* hold a part number column, the first one with the most recognised
\* columns; a sheet without such a row yields no line; every line comes from
\* a row below the header row.
C33_header_is_first_best_of_30 ==
    SheetParsed =>
        /\ HeaderCandidates(probe.rows) = {} => probe.header_idx = 0 /\ probe.result = << >>
        /\ HeaderCandidates(probe.rows) # {} => BestCandidate(probe.rows, probe.header_idx)
        /\ \A k \in DOMAIN probe.result : probe.result[k].source_row_number > probe.header_idx

\* a sheet parsed with a candidate of fewer columns above the header row and
\* one of as many columns below it, which gave a line
C33_witness ==
    /\ SheetParsed
    /\ probe.result # << >>
    /\ \E i, j \in HeaderCandidates(probe.rows) :
          /\ i < probe.header_idx /\ probe.header_idx < j
          /\ Recognized(probe.rows[i]) < Recognized(probe.rows[probe.header_idx])
          /\ Recognized(probe.rows[j]) = Recognized(probe.rows[probe.header_idx])

\* a sheet whose only row with a part number column is the 31st
HeaderBeyondScan ==
    /\ SheetParsed
    /\ \E i \in DOMAIN probe.rows :
          i > max_scan /\ "part_number" \in MappedFields(map_headers(probe.rows[i]))
    /\ HeaderCandidates(probe.rows) = {}
    /\ probe.result = << >>

\* the part_type column exists
TypesStored == "column" \in DOMAIN probe

\* the value of the enum that the text spells when letter case is ignored
EnumValueOf(part_type) ==
    { v \in VALID_PART_TYPES : part_type.kind = "str" /\ lower(part_type.text) = v }

\* the value is the text of a value of the enum between blanks
PaddedEnumValue(part_type) ==
    /\ part_type.kind = "str"
    /\ strip(part_type.text) # part_type.text
    /\ lower(strip(part_type.text)) \in VALID_PART_TYPES

\* every stored part_type is NULL or a value of the enum
EnumOrNull ==
    TypesStored =>
        \A id \in DOMAIN probe.column :
            \/ probe.column[id] = NoCell
            \/ probe.column[id].kind = "str" /\ probe.column[id].text \in VALID_PART_TYPES

\* what a call of update_part_type did to the column
PartTypeCallEffect ==
    (TypesStored /\ TypesStored' /\ probe'.call.made) =>
        LET c == probe'.call
            others == \A id \in DOMAIN probe.column :
                          id # c.part_id => probe'.column[id] = probe.column[id]
        IN /\ DOMAIN probe'.column = DOMAIN probe.column
           /\ EnumValueOf(c.part_type) # {} =>
                 /\ ~c.raised /\ others
                 /\ c.part_id \in DOMAIN probe.column =>
                       probe'.column[c.part_id] = Str(CHOOSE v \in EnumValueOf(c.part_type) : TRUE)
           /\ (c.part_type = NoCell \/ c.part_type = Str(<< >>)) =>
                 /\ ~c.raised /\ others
                 /\ c.part_id \in DOMAIN probe.column => probe'.column[c.part_id] = NoCell
           /\ (EnumValueOf(c.part_type) = {} /\ c.part_type # NoCell /\ c.part_type # Str(<< >>)
                  /\ ~PaddedEnumValue(c.part_type)) =>
                 c.raised /\ probe'.column = probe.column

\* C34: after any sequence of update_part_type calls every stored
\* part_type is null or one of the seven enum values; a call with a value
\* of the enum in any letter case stores it in lower case, a call with
\* None or "" stores null, and a call with any other value raises and
\* leaves the column as it was.
C34_part_type_enum_or_null == []EnumOrNull /\ [][PartTypeCallEffect]_vars

\* a part holds a value of the enum given in another letter case, and the
\* last call, with a value outside the enum, raised
C34_witness ==
    /\ TypesStored
    /\ probe.call.made /\ probe.call.raised
    /\ probe.call.part_id \in DOMAIN probe.column
    /\ probe.column[probe.call.part_id] = Str(<<"f","a","s","t","e","n","e","r">>)
    /\ \E id \in DOMAIN probe.column : probe.column[id] = NoCell

\* the pass with this run id logged an error for the BOM file
FailedInRun(d, f, run_id) ==
    \E i \in DOMAIN d.import_issues :
        /\ d.import_issues[i].import_run_id = run_id
        /\ d.import_issues[i].severity = "error"
        /\ d.import_issues[i].file_path = f

\* a pass starts and no file was changed since the pass before it
StartsUnedited == pc = "idle" /\ pc' = "boms" /\ ~edited

\* C35: a BOM file whose processing failed in one pass, at whatever step,
\* and which is not modified afterwards is not taken for unchanged by the
\* next pass: that pass processes it again.
C35_failed_file_is_attempted_again ==
    [][StartsUnedited =>
         \A f \in BomUniverse :
             (f \in Range(ix'.bom_files) /\ FailedInRun(db, f, Len(db.import_runs)))
                 => ~BomUnchanged(ix'.existing_by_path, f, BomStat(f))]_vars

\* the link columns of a document row
LinkOf(x) ==
    [linked_to_type |-> x.linked_to_type, linked_id |-> x.linked_id,
     part_revision |-> x.part_revision, link_reason |-> x.link_reason]

\* the last pass returned its statistics: it ended completed or
\* completed_with_warnings
PassCompleted ==
    /\ pc = "idle"
    /\ hist.ended = "returned"
    /\ LatestStatus(db) \in {"completed", "completed_with_warnings"}

\* the document rows the pass came across and that index_documents links
VisitedDocuments ==
    { x \in db.documents : /\ hist.doc_outcome[x.path] \in {"skipped", "matched"}
                           /\ x.linked_to_type # "article" }

\* C36: after a pass that ends completed or completed_with_warnings the
\* link of every stored document (linked part, part_revision, link_reason)
\* is the one the matching strategies give for its file name on the parts
\* and BOM lines stored at the end of the pass, whatever happened to
\* earlier passes.
C36_links_follow_stored_lines ==
    PassCompleted =>
        \A x \in VisitedDocuments :
            LinkOf(x) = match_document(db, x.path.name, load_parts_cache(db))

\* the Articles on the recursion path of the k-th activation: the Article
\* the explosion started from, when it started at the root item, and the
\* Articles whose stored lines the activations below it loop over
OnPath(k) ==
    calls[1].visited \cup
        { calls[j].article_id : j \in { i \in 1..(k - 1) :
                                          calls[i].fn = "add_article_children_to_cart" } }

\* C37: during an explosion no Article's stored lines are expanded while the
\* Article is on the current recursion path, the Article the explosion
\* started from included, also when one of its own lines resolves to it.
C37_no_article_expanded_on_its_path ==
    \A k \in DOMAIN calls :
        (calls[k].fn = "add_article_children_to_cart" /\ calls[k].idx > 0)
            => calls[k].article_id \notin OnPath(k)

\* the row ids of a table
RowIds(rows) == { r.id : r \in rows }

\* C38: after any sequence of passes every stored BOM line refers to a
\* stored Article and a stored Part, and every document linked to a part
\* refers to a stored Part.
C38_no_dangling_reference ==
    /\ \A l \in db.bom_lines :
          l.article_id \in RowIds(db.articles) /\ l.part_id \in RowIds(db.parts)
    /\ \A x \in db.documents :
          x.linked_to_type = "part" => x.linked_id \in RowIds(db.parts)

\* a pass has ended that pruned an Article with lines, and lines of another
\* Article and a document linked to a part are stored
C38_witness ==
    /\ pc = "idle"
    /\ hist.ended = "returned"
    /\ \E l \in hist.before.bom_lines : l.article_id \notin RowIds(db.articles)
    /\ db.bom_lines # {}
    /\ \E x \in db.documents : x.linked_to_type = "part"

\* C39: a line's quantity is read the same way on the displayed tree and on
\* a sub-assembly's stored rows: a stored quantity of 0 counts as 0 on both,
\* so whatever the cart is given for a line that has quantity 0, or that
\* lies below a line of quantity 0, has effective quantity 0.
C39_zero_quantity_counts_as_zero ==
    \A i \in DOMAIN ledger : ledger[i].path_qty = 0 => ledger[i].qty = 0

\* the number of the part find_part_id_from_name selects for the file name
\* on the parts of a store, NoText where it selects none
SelectedNumber(d, filename) ==
    LET id == find_part_id_from_name(d, filename, load_parts_cache(d))
    IN IF id = NoId THEN NoText
       ELSE (CHOOSE p \in d.parts : p.id = id).part_number

\* the store with the same parts inserted in another order: the part that
\* has id i here has id perm[i] there
Reinserted(d, perm) ==
    [d EXCEPT !.parts = { [p EXCEPT !.id = perm[p.id]] : p \in @ }]

\* C40: the part find_part_id_from_name selects for a file name depends on
\* the set of indexed parts only: two stores that hold the same parts
\* inserted in different order link the file name to the same part number,
\* or both leave it unlinked.
C40_selected_part_independent_of_insertion_order ==
    probe.result = "stored" =>
        \A perm \in Permutations(RowIds(db.parts)) :
            SelectedNumber(Reinserted(db, perm), probe.filename)
                = SelectedNumber(db, probe.filename)

====
